---- MODULE Spec2Model ----
(***************************************************************************)
(* The entity store of the task manager: the tables, constraints, foreign  *)
(* keys, row-level-security policies and the provisioning trigger of the   *)
(* SQL migrations, with every statement issued by an authenticated         *)
(* identity (auth.uid() = u).                                              *)
(*                                                                         *)
(* How a statement ended is recorded in last.result:                       *)
(*   "ok"     it changed (or inserted, or removed) a row;                  *)
(*   "empty"  no row passed the USING policies (or no policy exists for    *)
(*            the command): zero rows affected, no error;                  *)
(*   "rls"    it raised: the new row violates a row-level security policy; *)
(*   "not_null", or the name of the violated constraint (a primary key, a  *)
(*            unique key, a CHECK, a foreign key): it raised;              *)
(*   "store_error"  it raised for a reason of the store itself.            *)
(* A statement that raised left nothing behind. The policies of a new row  *)
(* are evaluated before its constraints, NOT NULL before the CHECKs, the   *)
(* CHECKs in the order of their names, then the keys, then what runs after *)
(* the row is in place (foreign keys, the AFTER trigger).                  *)
(* Primary keys are never the target of an UPDATE here.                    *)
(***************************************************************************)
EXTENDS Integers, FiniteSets, Sequences, Bags, TLC

\* ---------------------------------------------------------------- bounds
\* rows per table of the specification over the five tables
MaxClients == 1
MaxTasks == 1
MaxComments == 1
MaxAttachments == 1
\* clients of the provisioning specification
MaxProvisionClients == 2
\* tasks of the column specification
MaxFieldTasks == 1
\* tasks of the comment specification
MaxCommentTasks == 2
\* meetings, and calendar events
MaxEvents == 2
\* events of the proxy specification
MaxProxyEvents == 3
\* tasks of the lookup specification
MaxLookupTasks == 1
\* the view specification: runs of the effect, clients selected, tasks
MaxSelections == 3
MaxViewClients == 1
MaxViewTasks == 1
\* meetings, and events, of the calendar page specification
MaxSyncRows == 1
\* rows per table of the owner specification
MaxOwnedRows == 1
\* events of the library specification
MaxLibEvents == 1
\* clients, and tasks, of the category specification
MaxTagClients == 1
MaxTagTasks == 1
\* the storage specification: files of one run, attachment rows
MaxStorageFiles == 1
MaxStorageRows == 1
\* the upload specification: files of one run, tasks, attachment rows
MaxFiles == 2
MaxUploadTasks == 1
MaxUploadRows == 2

\* ------------------------------------------------------------ identities
Users == {"u1", "u2"}

ClientIds == 1..MaxClients
TaskIds == 1..MaxTasks
CommentIds == 1..MaxComments
AttachmentIds == 1..MaxAttachments
ProvisionIds == 1..MaxProvisionClients
FieldTaskIds == 1..MaxFieldTasks
CommentTaskIds == 1..MaxCommentTasks
EventIds == 1..MaxEvents
ProxyEventIds == 1..MaxProxyEvents
LookupTaskIds == 1..MaxLookupTasks
ViewClientIds == 1..MaxViewClients
ViewTaskIds == 1..MaxViewTasks
SyncIds == 1..MaxSyncRows
OwnedIds == 1..MaxOwnedRows
LibEventIds == 1..MaxLibEvents
TagClientIds == 1..MaxTagClients
TagTaskIds == 1..MaxTagTasks
StorageRowIds == 1..MaxStorageRows
UploadTaskIds == 1..MaxUploadTasks
UploadRowIds == 1..MaxUploadRows

\* tasks.client_id is nullable: the null reference
NullId == 0
\* a null text value (tasks.priority is nullable)
NullText == "NULL"

\* ------------------------------------------------------- column domains
\* client_categories.category / tasks.category CHECK
CategoryTags == {"tasks", "gtm", "recurring"}
\* The VALUES list of the provisioning trigger, in order
DefaultCategories == <<"tasks", "gtm", "recurring">>
\* tasks.status CHECK
TaskStatus == {"Pending", "In-Progress", "Completed"}
\* tasks.priority CHECK
TaskPriority == {"Low", "Medium", "High", "Urgent"}

VARIABLES
    clients,            \* set of [id, user_id, name]
    client_categories,  \* bag of [client_id, category] (row ids abstracted)
    tasks,              \* set of [id, user_id, client_id, category, status, priority]
    task_comments,      \* set of [id, task_id, user_id]
    task_attachments,   \* set of [id, task_id, user_id]
    meetings,           \* set of [id, user_id, title]
    calendar_events,    \* set of [id, user_id, title, google_event_id]
    last,               \* the last statement: [op, result, cascaded]
    objects,            \* storage.objects: set of [bucket_id, name]
    upload,             \* handleFileUpload of one TaskDetails
    view                \* one TasksTable

vars == <<clients, client_categories, tasks, task_comments, task_attachments,
          meetings, calendar_events, last, objects, upload, view>>

\* What no statement on a table and no request to the proxy changes
frame == <<objects, upload, view>>

store == <<clients, client_categories, tasks, task_comments, task_attachments,
           meetings, calendar_events>>

Ids(table) == {r.id : r \in table}
RowById(table, id) == CHOOSE r \in table : r.id = id

\* id uuid PRIMARY KEY DEFAULT gen_random_uuid(): the id of a row inserted
\* without one is fresh; of the ids of the model, the least unused (none when
\* the table holds them all).
DefaultId(table, ids) ==
    LET free == ids \ Ids(table)
    IN {i \in free : \A j \in free : i <= j}

\* cascaded counts the rows an ON DELETE CASCADE removed with the target
Outcome(op, res) == [op |-> op, result |-> res, cascaded |-> 0]
Cascade(op, n) == [op |-> op, result |-> "ok", cascaded |-> n]

\* TaskDetails: const [uploading, setUploading] = useState(false), and no
\* handleFileUpload under way. files counts the files still to be processed,
\* path is the filePath of the file in hand (of one iteration of the loop),
\* task the taskId of the panel.
NotUploading ==
    [pc |-> "idle", uploading |-> FALSE, user |-> NullText, task |-> NullId,
     files |-> 0, path |-> << >>]

\* TasksTable before its first effect: tasks [], loading true, no fetchTasks
\* issued. selection is the pair of props (selectedClientId,
\* selectedCategory); pending the fetchTasks calls awaiting their reply, each
\* with its number, the session and the selection its query was built from;
\* changes counts the runs of the effect, from is the number of the call that
\* set tasks.
NoSelection == [client_id |-> NullId, category |-> NullText]
Unmounted ==
    [selection |-> NoSelection, tasks |-> {}, from |-> 0, loading |-> TRUE,
     pending |-> {}, changes |-> 0]

Init ==
    /\ clients = {}
    /\ client_categories = EmptyBag
    /\ tasks = {}
    /\ task_comments = {}
    /\ task_attachments = {}
    /\ meetings = {}
    /\ calendar_events = {}
    /\ last = Outcome("none", "ok")
    /\ objects = {}
    /\ upload = NotUploading
    /\ view = Unmounted

\* ------------------------------------------------ policies: clients
\* "Users can view their own clients"
ClientsSelectUsing(u, row) == u = row.user_id
\* "Users can create clients"
ClientsInsertCheck(u, row) == u = row.user_id
\* "Users can update their own clients"
ClientsUpdateUsing(u, row) == u = row.user_id
\* Mutant: the update policy without a WITH CHECK on the owner
ClientsUpdateCheck_Any(u, row) == TRUE
ClientsUpdateCheck(u, row) == u = row.user_id
\* "Users can delete their own clients"
ClientsDeleteUsing(u, row) == u = row.user_id

\* ------------------------------------------------ policies: client_categories
\* The EXISTS subquery reads clients under the caller's own SELECT policy.
\* "Users can view categories of their clients"
CategoriesSelectUsing(u, row, cl) ==
    \E c \in cl : ClientsSelectUsing(u, c) /\ c.id = row.client_id /\ c.user_id = u
\* "Users can create categories for their clients"
CategoriesInsertCheck(u, row, cl) ==
    \E c \in cl : ClientsSelectUsing(u, c) /\ c.id = row.client_id /\ c.user_id = u
\* Mutant: an update policy like the one for SELECT
CategoriesUpdateUsing_Owner(u, row, cl) == CategoriesSelectUsing(u, row, cl)
\* No UPDATE and no DELETE policy exists on client_categories: with row level
\* security enabled, no row is visible to either command.
CategoriesUpdateUsing(u, row, cl) == FALSE
\* Mutant: a DELETE policy like the one of the other tables
CategoriesDeleteUsing_Owner(u, row, cl) == CategoriesSelectUsing(u, row, cl)
CategoriesDeleteUsing(u, row, cl) == FALSE

\* ------------------------------------------------ client_categories constraints
CategoryRow(cid, tag) == [client_id |-> cid, category |-> tag]

\* Mutant: the table without its UNIQUE key
CategoryUnique_Missing(row, cats) == TRUE
\* UNIQUE(client_id, category)
CategoryUnique(row, cats) == CopiesIn(row, cats) = 0

\* category text NOT NULL CHECK (category IN ('tasks', 'gtm', 'recurring'))
CategoryCheck(row) == row.category \in CategoryTags

\* client_id uuid NOT NULL REFERENCES clients(id)
CategoryClientFk(row, cl) == row.client_id \in Ids(cl)

\* One INSERT INTO client_categories by identity u against clients cl and
\* categories cats: "ok", or the error it raises.
CategoryInsertError(u, row, cl, cats) ==
    IF ~CategoriesInsertCheck(u, row, cl) THEN "rls"
    ELSE IF ~CategoryCheck(row) THEN "client_categories_category_check"
    ELSE IF ~CategoryUnique(row, cats) THEN "client_categories_client_id_category_key"
    ELSE IF ~CategoryClientFk(row, cl) THEN "client_categories_client_id_fkey"
    ELSE "ok"

\* ------------------------------------------------ the provisioning trigger
\* A store-level failure of the i-th row of the trigger's INSERT (0: none).
Faults == 0..Len(DefaultCategories)

\* Mutant: the trigger declared AFTER INSERT OR UPDATE
ClientTriggerEvents_WithUpdate == {"INSERT", "UPDATE"}
\* CREATE TRIGGER create_categories_on_client_insert AFTER INSERT ON clients
\* FOR EACH ROW: the statements on clients that fire the trigger
ClientTriggerEvents == {"INSERT"}

\* Mutant: the rows keyed by the name of the new client, that is by the first
\* client of that name
TriggerClient_ByName(new, cl) ==
    LET same == {c \in cl : c.name = new.name}
    IN (CHOOSE c \in same : \A d \in same : c.id <= d.id).id
\* (NEW.id, ...): the client the rows of the VALUES list belong to
TriggerClient(new, cl) == new.id

\* create_default_categories(): the rows of the VALUES list are inserted in
\* order, as the invoking identity (the function is not SECURITY DEFINER);
\* the first failure raises.
RECURSIVE TriggerRows(_, _, _, _, _, _)
TriggerRows(i, u, new, cl, cats, fault) ==
    IF i > Len(DefaultCategories)
    THEN [result |-> "ok", cats |-> cats]
    ELSE LET row == CategoryRow(TriggerClient(new, cl), DefaultCategories[i])
             err == IF fault = i THEN "store_error"
                    ELSE CategoryInsertError(u, row, cl, cats)
         IN IF err # "ok"
            THEN [result |-> err, cats |-> cats]
            ELSE TriggerRows(i + 1, u, new, cl, cats (+) SetToBag({row}), fault)

\* Mutant: the VALUES list without its last row
create_default_categories_ShortList(u, new, cl, cats, fault) ==
    LET full == TriggerRows(1, u, new, cl, cats, fault)
        lastRow == CategoryRow(new.id, DefaultCategories[Len(DefaultCategories)])
    IN IF full.result = "ok"
       THEN [result |-> "ok",
             cats |-> [r \in BagToSet(full.cats) \ {lastRow} |-> full.cats[r]]]
       ELSE full

create_default_categories(u, new, cl, cats, fault) ==
    TriggerRows(1, u, new, cl, cats, fault)

\* Mutant: the client row and the rows the trigger had inserted are kept when
\* the trigger raises
ClientInsertTxn_NoRollback(u, row, fault) ==
    LET rollback(err) ==
            [result |-> err, clients |-> clients, cats |-> client_categories]
    IN IF ~ClientsInsertCheck(u, row) THEN rollback("rls")
       ELSE IF row.id \in Ids(clients) THEN rollback("clients_pkey")
       ELSE LET cl1 == clients \cup {row}
                trig == create_default_categories(u, row, cl1, client_categories, fault)
            IN [result |-> trig.result, clients |-> cl1, cats |-> trig.cats]

\* INSERT INTO clients with its AFTER INSERT row trigger, one transaction:
\* the result is the committed state, or the state before the statement.
ClientInsertTxn(u, row, fault) ==
    LET rollback(err) ==
            [result |-> err, clients |-> clients, cats |-> client_categories]
    IN IF ~ClientsInsertCheck(u, row) THEN rollback("rls")
       ELSE IF row.id \in Ids(clients) THEN rollback("clients_pkey")
       ELSE LET cl1 == clients \cup {row}
                trig == IF "INSERT" \in ClientTriggerEvents
                        THEN create_default_categories(u, row, cl1, client_categories, fault)
                        ELSE [result |-> "ok", cats |-> client_categories]
            IN IF trig.result = "ok"
               THEN [result |-> "ok", clients |-> cl1, cats |-> trig.cats]
               ELSE rollback(trig.result)

\* ------------------------------------------------ cascades
\* Mutant: task_comments.task_id without ON DELETE CASCADE taking effect
CommentsAfterTaskDelete_Kept(tids) == task_comments
\* ON DELETE CASCADE from tasks to task_comments and task_attachments
CommentsAfterTaskDelete(tids) == {c \in task_comments : c.task_id \notin tids}
AttachmentsAfterTaskDelete(tids) == {a \in task_attachments : a.task_id \notin tids}
\* ON DELETE CASCADE from clients to tasks and client_categories
TasksOfClient(cid) == {t \in tasks : t.client_id = cid}
CategoriesAfterClientDelete(cid) ==
    LET keep == {r \in BagToSet(client_categories) : r.client_id # cid}
    IN [r \in keep |-> client_categories[r]]

\* ------------------------------------------------ statements on clients
InsertClient(u, row, fault) ==
    LET txn == ClientInsertTxn(u, row, fault)
    IN /\ clients' = txn.clients
       /\ client_categories' = txn.cats
       /\ last' = Outcome("insert_client", txn.result)
       /\ UNCHANGED <<tasks, task_comments, task_attachments, meetings, calendar_events, frame>>

\* UPDATE clients SET user_id, name WHERE id = id
UpdateClient(u, id, new) ==
    LET target == {c \in clients : c.id = id /\ ClientsSelectUsing(u, c)
                                   /\ ClientsUpdateUsing(u, c)}
    IN IF target = {}
       THEN /\ last' = Outcome("update_client", "empty")
            /\ UNCHANGED <<store, frame>>
       ELSE LET old == RowById(target, id)
                row == [old EXCEPT !.user_id = new.user_id, !.name = new.name]
                cl1 == (clients \ {old}) \cup {row}
                trig == IF "UPDATE" \in ClientTriggerEvents
                        THEN create_default_categories(u, row, cl1, client_categories, 0)
                        ELSE [result |-> "ok", cats |-> client_categories]
            IN IF ~ClientsUpdateCheck(u, row)
               THEN /\ last' = Outcome("update_client", "rls")
                    /\ UNCHANGED <<store, frame>>
               ELSE IF trig.result # "ok"
               THEN /\ last' = Outcome("update_client", trig.result)
                    /\ UNCHANGED <<store, frame>>
               ELSE /\ clients' = cl1
                    /\ client_categories' = trig.cats
                    /\ last' = Outcome("update_client", "ok")
                    /\ UNCHANGED <<tasks, task_comments, task_attachments,
                                   meetings, calendar_events, frame>>

\* DELETE FROM clients WHERE id = id, with its cascades
DeleteClient(u, id) ==
    LET target == {c \in clients : c.id = id /\ ClientsSelectUsing(u, c)
                                   /\ ClientsDeleteUsing(u, c)}
    IN IF target = {}
       THEN /\ last' = Outcome("delete_client", "empty")
            /\ UNCHANGED <<store, frame>>
       ELSE LET gone == Ids(TasksOfClient(id))
            IN /\ clients' = clients \ target
               /\ client_categories' = CategoriesAfterClientDelete(id)
               /\ tasks' = tasks \ TasksOfClient(id)
               /\ task_comments' = CommentsAfterTaskDelete(gone)
               /\ task_attachments' = AttachmentsAfterTaskDelete(gone)
               /\ last' = Cascade("delete_client",
                                  Cardinality(TasksOfClient(id))
                                  + Cardinality(task_comments \ CommentsAfterTaskDelete(gone))
                                  + Cardinality(task_attachments \ AttachmentsAfterTaskDelete(gone)))
               /\ UNCHANGED <<meetings, calendar_events, frame>>

\* ------------------------------------------------ statements on client_categories
InsertCategory(u, row) ==
    LET err == CategoryInsertError(u, row, clients, client_categories)
    IN IF err = "ok"
       THEN /\ client_categories' = client_categories (+) SetToBag({row})
            /\ last' = Outcome("insert_category", "ok")
            /\ UNCHANGED <<clients, tasks, task_comments, task_attachments,
                           meetings, calendar_events, frame>>
       ELSE /\ last' = Outcome("insert_category", err)
            /\ UNCHANGED <<store, frame>>

\* UPDATE client_categories SET category = tag WHERE client_id = cid AND category = old
UpdateCategory(u, row, tag) ==
    LET target == {r \in BagToSet(client_categories) :
                     r = row /\ CategoriesSelectUsing(u, r, clients)
                             /\ CategoriesUpdateUsing(u, r, clients)}
    IN IF target = {}
       THEN /\ last' = Outcome("update_category", "empty")
            /\ UNCHANGED <<store, frame>>
       ELSE LET new == CategoryRow(row.client_id, tag)
                rest == [r \in BagToSet(client_categories) \ {row} |-> client_categories[r]]
                err == IF ~CategoriesSelectUsing(u, new, clients) THEN "rls"
                       ELSE IF ~CategoryCheck(new)
                            THEN "client_categories_category_check"
                       ELSE IF ~CategoryUnique(new, rest)
                            THEN "client_categories_client_id_category_key"
                       ELSE "ok"
            IN IF err = "ok"
               THEN /\ client_categories' = rest (+) SetToBag({new})
                    /\ last' = Outcome("update_category", "ok")
                    /\ UNCHANGED <<clients, tasks, task_comments, task_attachments,
                                   meetings, calendar_events, frame>>
               ELSE /\ last' = Outcome("update_category", err)
                    /\ UNCHANGED <<store, frame>>

\* DELETE FROM client_categories WHERE client_id = cid AND category = tag
DeleteCategory(u, row) ==
    LET target == {r \in BagToSet(client_categories) :
                     r = row /\ CategoriesSelectUsing(u, r, clients)
                             /\ CategoriesDeleteUsing(u, r, clients)}
    IN IF target = {}
       THEN /\ last' = Outcome("delete_category", "empty")
            /\ UNCHANGED <<store, frame>>
       ELSE /\ client_categories' =
                 [r \in BagToSet(client_categories) \ target |-> client_categories[r]]
            /\ last' = Outcome("delete_category", "ok")
            /\ UNCHANGED <<clients, tasks, task_comments, task_attachments,
                           meetings, calendar_events, frame>>

\* ------------------------------------------------ policies: tasks
\* "Users can view their own tasks"
TasksSelectUsing(u, row) == u = row.user_id
\* "Users can create tasks"
TasksInsertCheck(u, row) == u = row.user_id
\* "Users can update their own tasks"
TasksUpdateUsing(u, row) == u = row.user_id
TasksUpdateCheck(u, row) == u = row.user_id
\* "Users can delete their own tasks"
TasksDeleteUsing(u, row) == u = row.user_id

\* ------------------------------------------------ tasks constraints
\* client_id uuid REFERENCES clients(id): null, or an existing client. The
\* referential check reads clients without row level security.
TaskClientFk(row, cl) == row.client_id = NullId \/ row.client_id \in Ids(cl)
\* Mutant: the column without its CHECK
TaskCategoryCheck_Missing(row) == TRUE
\* category text NOT NULL CHECK (category IN (...))
TaskCategoryCheck(row) == row.category = NullText \/ row.category \in CategoryTags
\* Mutant: the column without its CHECK
TaskStatusCheck_Missing(row) == TRUE
\* status text NOT NULL CHECK (status IN (...))
TaskStatusCheck(row) == row.status = NullText \/ row.status \in TaskStatus
\* priority text DEFAULT 'Medium' CHECK (priority IN (...)): no NOT NULL. A
\* CHECK whose expression is null passes.
TaskPriorityCheck(row) == row.priority = NullText \/ row.priority \in TaskPriority

\* The constraints of a new tasks row other than its primary key: "ok", or
\* the first one violated.
TaskConstraintError(row, cl) ==
    IF row.category = NullText \/ row.status = NullText THEN "not_null"
    ELSE IF ~TaskCategoryCheck(row) THEN "tasks_category_check"
    ELSE IF ~TaskPriorityCheck(row) THEN "tasks_priority_check"
    ELSE IF ~TaskStatusCheck(row) THEN "tasks_status_check"
    ELSE IF ~TaskClientFk(row, cl) THEN "tasks_client_id_fkey"
    ELSE "ok"

\* ------------------------------------------------ statements on tasks
\* The row of INSERT INTO tasks (columns of input) VALUES (...): a column the
\* statement leaves out takes its DEFAULT (client_id has none: null); a column
\* it sets to null stays null.
Column(input, name, default) ==
    IF name \in DOMAIN input THEN input[name] ELSE default
TaskDefaults(input) ==
    [id |-> input.id, user_id |-> input.user_id,
     client_id |-> Column(input, "client_id", NullId),
     category |-> Column(input, "category", "tasks"),
     status |-> Column(input, "status", "Pending"),
     priority |-> Column(input, "priority", "Medium")]

TaskInsertError(u, row) ==
    IF ~TasksInsertCheck(u, row) THEN "rls"
    ELSE IF row.id \in Ids(tasks) THEN "tasks_pkey"
    ELSE TaskConstraintError(row, clients)

TaskUpdateError(u, row) ==
    IF ~(TasksUpdateCheck(u, row) /\ TasksSelectUsing(u, row)) THEN "rls"
    ELSE TaskConstraintError(row, clients)

InsertTask(u, row) ==
    LET err == TaskInsertError(u, row)
    IN IF err = "ok"
       THEN /\ tasks' = tasks \cup {row}
            /\ last' = Outcome("insert_task", "ok")
            /\ UNCHANGED <<clients, client_categories, task_comments, task_attachments,
                           meetings, calendar_events, frame>>
       ELSE /\ last' = Outcome("insert_task", err)
            /\ UNCHANGED <<store, frame>>

\* UPDATE tasks SET user_id, client_id, category, status, priority WHERE id = id.
\* The WHERE clause needs read access, so the SELECT policy applies to the
\* existing and to the new row.
UpdateTask(u, id, new) ==
    LET target == {t \in tasks : t.id = id /\ TasksSelectUsing(u, t)
                                 /\ TasksUpdateUsing(u, t)}
    IN IF target = {}
       THEN /\ last' = Outcome("update_task", "empty")
            /\ UNCHANGED <<store, frame>>
       ELSE LET old == RowById(target, id)
                row == [old EXCEPT !.user_id = new.user_id,
                                   !.client_id = new.client_id,
                                   !.category = new.category,
                                   !.status = new.status,
                                   !.priority = new.priority]
                err == TaskUpdateError(u, row)
            IN IF err = "ok"
               THEN /\ tasks' = (tasks \ {old}) \cup {row}
                    /\ last' = Outcome("update_task", "ok")
                    /\ UNCHANGED <<clients, client_categories, task_comments,
                                   task_attachments, meetings, calendar_events, frame>>
               ELSE /\ last' = Outcome("update_task", err)
                    /\ UNCHANGED <<store, frame>>

\* DELETE FROM tasks WHERE id = id, with its cascades
DeleteTask(u, id) ==
    LET target == {t \in tasks : t.id = id /\ TasksSelectUsing(u, t)
                                 /\ TasksDeleteUsing(u, t)}
    IN IF target = {}
       THEN /\ last' = Outcome("delete_task", "empty")
            /\ UNCHANGED <<store, frame>>
       ELSE /\ tasks' = tasks \ target
            /\ task_comments' = CommentsAfterTaskDelete(Ids(target))
            /\ task_attachments' = AttachmentsAfterTaskDelete(Ids(target))
            /\ last' = Cascade("delete_task",
                               Cardinality(task_comments \ CommentsAfterTaskDelete(Ids(target)))
                               + Cardinality(task_attachments \ AttachmentsAfterTaskDelete(Ids(target))))
            /\ UNCHANGED <<clients, client_categories, meetings, calendar_events, frame>>

\* ------------------------------------------------ policies: task_comments
\* The EXISTS subqueries read tasks under the caller's own SELECT policy.
\* "Users can view comments on their tasks"
CommentsSelectUsing(u, row, tk) ==
    \E t \in tk : TasksSelectUsing(u, t) /\ t.id = row.task_id /\ t.user_id = u
\* "Users can add comments to their tasks"
CommentsInsertCheck(u, row, tk) ==
    /\ \E t \in tk : TasksSelectUsing(u, t) /\ t.id = row.task_id /\ t.user_id = u
    /\ u = row.user_id
\* "Users can update their own comments"
CommentsUpdateUsing(u, row) == u = row.user_id
CommentsUpdateCheck(u, row) == u = row.user_id
\* "Users can delete their own comments"
CommentsDeleteUsing(u, row) == u = row.user_id

\* task_id uuid NOT NULL REFERENCES tasks(id)
CommentTaskFk(row, tk) == row.task_id \in Ids(tk)

\* ------------------------------------------------ statements on task_comments
CommentInsertError(u, row) ==
    IF ~CommentsInsertCheck(u, row, tasks) THEN "rls"
    ELSE IF row.id \in Ids(task_comments) THEN "task_comments_pkey"
    ELSE IF ~CommentTaskFk(row, tasks) THEN "task_comments_task_id_fkey"
    ELSE "ok"

CommentUpdateError(u, row) ==
    IF ~(CommentsUpdateCheck(u, row) /\ CommentsSelectUsing(u, row, tasks)) THEN "rls"
    ELSE IF ~CommentTaskFk(row, tasks) THEN "task_comments_task_id_fkey"
    ELSE "ok"

InsertComment(u, row) ==
    LET err == CommentInsertError(u, row)
    IN IF err = "ok"
       THEN /\ task_comments' = task_comments \cup {row}
            /\ last' = Outcome("insert_comment", "ok")
            /\ UNCHANGED <<clients, client_categories, tasks, task_attachments,
                           meetings, calendar_events, frame>>
       ELSE /\ last' = Outcome("insert_comment", err)
            /\ UNCHANGED <<store, frame>>

\* UPDATE task_comments SET task_id, user_id WHERE id = id
UpdateComment(u, id, new) ==
    LET target == {c \in task_comments : c.id = id /\ CommentsSelectUsing(u, c, tasks)
                                         /\ CommentsUpdateUsing(u, c)}
    IN IF target = {}
       THEN /\ last' = Outcome("update_comment", "empty")
            /\ UNCHANGED <<store, frame>>
       ELSE LET old == RowById(target, id)
                row == [old EXCEPT !.task_id = new.task_id, !.user_id = new.user_id]
                err == CommentUpdateError(u, row)
            IN IF err = "ok"
               THEN /\ task_comments' = (task_comments \ {old}) \cup {row}
                    /\ last' = Outcome("update_comment", "ok")
                    /\ UNCHANGED <<clients, client_categories, tasks, task_attachments,
                                   meetings, calendar_events, frame>>
               ELSE /\ last' = Outcome("update_comment", err)
                    /\ UNCHANGED <<store, frame>>

DeleteComment(u, id) ==
    LET target == {c \in task_comments : c.id = id /\ CommentsSelectUsing(u, c, tasks)
                                         /\ CommentsDeleteUsing(u, c)}
    IN IF target = {}
       THEN /\ last' = Outcome("delete_comment", "empty")
            /\ UNCHANGED <<store, frame>>
       ELSE /\ task_comments' = task_comments \ target
            /\ last' = Outcome("delete_comment", "ok")
            /\ UNCHANGED <<clients, client_categories, tasks, task_attachments,
                           meetings, calendar_events, frame>>

\* ------------------------------------------------ policies: task_attachments
\* "Users can view attachments for their tasks"
AttachmentsSelectUsing(u, row, tk) ==
    \E t \in tk : TasksSelectUsing(u, t) /\ t.id = row.task_id /\ t.user_id = u
\* "Users can upload attachments to their tasks"
AttachmentsInsertCheck(u, row, tk) ==
    /\ \E t \in tk : TasksSelectUsing(u, t) /\ t.id = row.task_id /\ t.user_id = u
    /\ row.user_id = u
\* "Users can delete their own attachments"
AttachmentsDeleteUsing(u, row) == row.user_id = u

\* task_id uuid NOT NULL REFERENCES tasks(id)
AttachmentTaskFk(row, tk) == row.task_id \in Ids(tk)

\* ------------------------------------------------ statements on task_attachments
AttachmentInsertError(u, row) ==
    IF ~AttachmentsInsertCheck(u, row, tasks) THEN "rls"
    ELSE IF row.id \in Ids(task_attachments) THEN "task_attachments_pkey"
    ELSE IF ~AttachmentTaskFk(row, tasks) THEN "task_attachments_task_id_fkey"
    ELSE "ok"

InsertAttachment(u, row) ==
    LET err == AttachmentInsertError(u, row)
    IN IF err = "ok"
       THEN /\ task_attachments' = task_attachments \cup {row}
            /\ last' = Outcome("insert_attachment", "ok")
            /\ UNCHANGED <<clients, client_categories, tasks, task_comments,
                           meetings, calendar_events, frame>>
       ELSE /\ last' = Outcome("insert_attachment", err)
            /\ UNCHANGED <<store, frame>>

DeleteAttachment(u, id) ==
    LET target == {a \in task_attachments :
                     a.id = id /\ AttachmentsSelectUsing(u, a, tasks)
                               /\ AttachmentsDeleteUsing(u, a)}
    IN IF target = {}
       THEN /\ last' = Outcome("delete_attachment", "empty")
            /\ UNCHANGED <<store, frame>>
       ELSE /\ task_attachments' = task_attachments \ target
            /\ last' = Outcome("delete_attachment", "ok")
            /\ UNCHANGED <<clients, client_categories, tasks, task_comments,
                           meetings, calendar_events, frame>>

\* ------------------------------------------------ policies: meetings
\* "Users can view own meetings"
MeetingsSelectUsing(u, row) == u = row.user_id
\* "Users can insert own meetings"
MeetingsInsertCheck(u, row) == u = row.user_id
\* "Users can update own meetings"
MeetingsUpdateUsing(u, row) == u = row.user_id
MeetingsUpdateCheck(u, row) == u = row.user_id
\* "Users can delete own meetings"
MeetingsDeleteUsing(u, row) == u = row.user_id

\* ------------------------------------------------ statements on meetings
InsertMeeting(u, row) ==
    LET err == IF ~MeetingsInsertCheck(u, row) THEN "rls"
               ELSE IF row.id \in Ids(meetings) THEN "meetings_pkey"
               ELSE "ok"
    IN IF err = "ok"
       THEN /\ meetings' = meetings \cup {row}
            /\ last' = Outcome("insert_meeting", "ok")
            /\ UNCHANGED <<clients, client_categories, tasks, task_comments,
                           task_attachments, calendar_events, frame>>
       ELSE /\ last' = Outcome("insert_meeting", err)
            /\ UNCHANGED <<store, frame>>

\* UPDATE meetings SET user_id, title WHERE id = id
UpdateMeeting(u, id, new) ==
    LET target == {m \in meetings : m.id = id /\ MeetingsSelectUsing(u, m)
                                    /\ MeetingsUpdateUsing(u, m)}
    IN IF target = {}
       THEN /\ last' = Outcome("update_meeting", "empty")
            /\ UNCHANGED <<store, frame>>
       ELSE LET old == RowById(target, id)
                row == [old EXCEPT !.user_id = new.user_id, !.title = new.title]
            IN IF MeetingsUpdateCheck(u, row) /\ MeetingsSelectUsing(u, row)
               THEN /\ meetings' = (meetings \ {old}) \cup {row}
                    /\ last' = Outcome("update_meeting", "ok")
                    /\ UNCHANGED <<clients, client_categories, tasks, task_comments,
                                   task_attachments, calendar_events, frame>>
               ELSE /\ last' = Outcome("update_meeting", "rls")
                    /\ UNCHANGED <<store, frame>>

DeleteMeeting(u, id) ==
    LET target == {m \in meetings : m.id = id /\ MeetingsSelectUsing(u, m)
                                    /\ MeetingsDeleteUsing(u, m)}
    IN IF target = {}
       THEN /\ last' = Outcome("delete_meeting", "empty")
            /\ UNCHANGED <<store, frame>>
       ELSE /\ meetings' = meetings \ target
            /\ last' = Outcome("delete_meeting", "ok")
            /\ UNCHANGED <<clients, client_categories, tasks, task_comments,
                           task_attachments, calendar_events, frame>>

\* ------------------------------------------------ policies: calendar_events
\* "Users can view own calendar events"
EventsSelectUsing(u, row) == row.user_id = u
\* "Users can create own calendar events"
EventsInsertCheck(u, row) == row.user_id = u
\* "Users can update own calendar events"
EventsUpdateUsing(u, row) == row.user_id = u
EventsUpdateCheck(u, row) == row.user_id = u
\* "Users can delete own calendar events"
EventsDeleteUsing(u, row) == row.user_id = u

\* ------------------------------------------------ statements on calendar_events
InsertEvent(u, row) ==
    LET err == IF ~EventsInsertCheck(u, row) THEN "rls"
               ELSE IF row.id \in Ids(calendar_events) THEN "calendar_events_pkey"
               ELSE "ok"
    IN IF err = "ok"
       THEN /\ calendar_events' = calendar_events \cup {row}
            /\ last' = Outcome("insert_event", "ok")
            /\ UNCHANGED <<clients, client_categories, tasks, task_comments,
                           task_attachments, meetings, frame>>
       ELSE /\ last' = Outcome("insert_event", err)
            /\ UNCHANGED <<store, frame>>

\* UPDATE calendar_events SET user_id, title WHERE id = id
UpdateEvent(u, id, new) ==
    LET target == {e \in calendar_events : e.id = id /\ EventsSelectUsing(u, e)
                                           /\ EventsUpdateUsing(u, e)}
    IN IF target = {}
       THEN /\ last' = Outcome("update_event", "empty")
            /\ UNCHANGED <<store, frame>>
       ELSE LET old == RowById(target, id)
                row == [old EXCEPT !.user_id = new.user_id, !.title = new.title]
            IN IF EventsUpdateCheck(u, row) /\ EventsSelectUsing(u, row)
               THEN /\ calendar_events' = (calendar_events \ {old}) \cup {row}
                    /\ last' = Outcome("update_event", "ok")
                    /\ UNCHANGED <<clients, client_categories, tasks, task_comments,
                                   task_attachments, meetings, frame>>
               ELSE /\ last' = Outcome("update_event", "rls")
                    /\ UNCHANGED <<store, frame>>

DeleteEvent(u, id) ==
    LET target == {e \in calendar_events : e.id = id /\ EventsSelectUsing(u, e)
                                           /\ EventsDeleteUsing(u, e)}
    IN IF target = {}
       THEN /\ last' = Outcome("delete_event", "empty")
            /\ UNCHANGED <<store, frame>>
       ELSE /\ calendar_events' = calendar_events \ target
            /\ last' = Outcome("delete_event", "ok")
            /\ UNCHANGED <<clients, client_categories, tasks, task_comments,
                           task_attachments, meetings, frame>>

\* ------------------------------------------------ reads by id
\* fetchTask: select('*').eq('id', taskId).maybeSingle() under the caller's
\* SELECT policy; data is the row, or null (no row) without an error.
FetchTask(u, id) ==
    LET found == {t \in tasks : t.id = id /\ TasksSelectUsing(u, t)}
    IN /\ last' = [op |-> "fetch_task",
                   result |-> IF found = {} THEN "empty" ELSE "ok",
                   cascaded |-> 0, data |-> found]
       /\ UNCHANGED <<store, frame>>

\* ------------------------------------------------ the event proxy
\* The handler of google-calendar-sync. Its client is created with the
\* service role key: no policy of calendar_events applies to its statements.
\* A request is [method, authorization, action, id, body]: authorization is
\* the header as a sequence of its parts (empty: no header), id the query
\* parameter (NullId: none), body.json whether the body parses as JSON.

\* authHeader.replace('Bearer ', '')
Replace(authHeader) ==
    IF Len(authHeader) > 1 /\ Head(authHeader) = "Bearer "
    THEN Tail(authHeader) ELSE authHeader

\* supabase.auth.getUser(token): the user of a valid token, or none
getUser(token) ==
    IF Len(token) = 1 /\ token[1] \in Users THEN token[1] ELSE NullText

Response(status, body) == [status |-> status, body |-> body]

\* Mutant: an error caught by the handler answered as a success
Thrown_AsSuccess(message) == Response(200, [success |-> TRUE])
\* catch (error): status 500 with { error: error.message }
Thrown(message) == Response(500, [error |-> message])

\* What a request did: its response, the table after it, the number of
\* statements it sent to the store and how the statement ended
Reply(resp, ev, ops, res) ==
    [response |-> resp, events |-> ev, store_ops |-> ops, result |-> res]

\* Mutant: the list without .eq('user_id', user.id)
ListRows_Unfiltered(user) == calendar_events
\* .select('*').eq('user_id', user.id)
ListRows(user) == {e \in calendar_events : e.user_id = user}

\* .order('date', { ascending: true }): every order of the rows in which no
\* date comes before a lesser one (rows of one date in any order)
Listings(rows) ==
    {s \in [1..Cardinality(rows) -> rows] :
        \A i, j \in 1..Cardinality(rows) :
           i < j => (s[i] # s[j] /\ s[i].date <= s[j].date)}

\* Mutant: the row inserted with the user_id and google_event_id of the body
CreateRow_FromBody(user, body, id) ==
    [id |-> id, user_id |-> body.user_id, title |-> body.title,
     date |-> body.date, google_event_id |-> body.google_event_id]
\* .insert([{ user_id: user.id, title, description, date, time,
\*            google_event_id: null }]); the id is the column default
CreateRow(user, body, id) ==
    [id |-> id, user_id |-> user, title |-> body.title,
     date |-> body.date, google_event_id |-> NullText]

\* Mutant: update and delete without .eq('user_id', user.id)
EventTargets_AnyOwner(user, id) == {e \in calendar_events : e.id = id}
\* .eq('id', eventId).eq('user_id', user.id)
EventTargets(user, id) == {e \in calendar_events : e.id = id /\ e.user_id = user}

\* case 'list'
ListCase(user, fault) ==
    IF fault
    THEN {Reply(Thrown("store_error"), calendar_events, 1, "store_error")}
    ELSE {Reply(Response(200, [events |-> s]), calendar_events, 1, "ok") :
             s \in Listings(ListRows(user))}

\* case 'create': req.json(), then the insert with .select().single()
CreateCase(user, body, fault, ids) ==
    IF ~body.json
    THEN {Reply(Thrown("SyntaxError"), calendar_events, 0, "none")}
    ELSE IF fault
    THEN {Reply(Thrown("store_error"), calendar_events, 1, "store_error")}
    ELSE IF body.title = NullText
    THEN {Reply(Thrown("not_null"), calendar_events, 1, "not_null")}
    ELSE {Reply(Response(200, [event |-> CreateRow(user, body, id)]),
                calendar_events \cup {CreateRow(user, body, id)}, 1, "ok") :
             id \in DefaultId(calendar_events, ids)}

\* Mutant: the update with every field of the body
UpdateRow_FromBody(old, body) ==
    [old EXCEPT !.title = body.title, !.date = body.date,
                !.user_id = body.user_id,
                !.google_event_id = body.google_event_id]
\* .update({ title, description, date, time, updated_at }) of the body
UpdateRow(old, body) == [old EXCEPT !.title = body.title, !.date = body.date]

\* case 'update': req.json(), then the id, then the update with
\* .select().single(), which is an error unless exactly one row comes back
UpdateCase(user, id, body, fault) ==
    IF ~body.json
    THEN {Reply(Thrown("SyntaxError"), calendar_events, 0, "none")}
    ELSE IF id = NullId
    THEN {Reply(Response(400, [error |-> "Event ID required"]),
                calendar_events, 0, "none")}
    ELSE IF fault
    THEN {Reply(Thrown("store_error"), calendar_events, 1, "store_error")}
    ELSE IF EventTargets(user, id) = {}
    THEN {Reply(Thrown("PGRST116"), calendar_events, 1, "empty")}
    ELSE IF body.title = NullText
    THEN {Reply(Thrown("not_null"), calendar_events, 1, "not_null")}
    ELSE LET old == RowById(EventTargets(user, id), id)
             row == UpdateRow(old, body)
         IN {Reply(Response(200, [event |-> row]),
                   (calendar_events \ {old}) \cup {row}, 1, "ok")}

\* case 'delete': the id, then the delete
DeleteCase(user, id, fault) ==
    IF id = NullId
    THEN {Reply(Response(400, [error |-> "Event ID required"]),
                calendar_events, 0, "none")}
    ELSE IF fault
    THEN {Reply(Thrown("store_error"), calendar_events, 1, "store_error")}
    ELSE {Reply(Response(200, [success |-> TRUE]),
                calendar_events \ EventTargets(user, id), 1,
                IF EventTargets(user, id) = {} THEN "empty" ELSE "ok")}

\* Deno.serve(async (req) => ...): the replies the handler can give
Replies(req, fault, ids) ==
    IF req.method = "OPTIONS"
    THEN {Reply(Response(200, << >>), calendar_events, 0, "none")}
    ELSE IF req.authorization = << >>
    THEN {Reply(Thrown("TypeError"), calendar_events, 0, "none")}
    ELSE LET user == getUser(Replace(req.authorization))
         IN IF user = NullText
            THEN {Reply(Response(401, [error |-> "Unauthorized"]),
                        calendar_events, 0, "none")}
            ELSE CASE req.action = "list" -> ListCase(user, fault)
                   [] req.action = "create" -> CreateCase(user, req.body, fault, ids)
                   [] req.action = "update" -> UpdateCase(user, req.id, req.body, fault)
                   [] req.action = "delete" -> DeleteCase(user, req.id, fault)
                   [] OTHER -> {Reply(Response(400, [error |-> "Invalid action"]),
                                      calendar_events, 0, "none")}

\* One request served; fault: the statement it sends fails in the store
Serve(req, fault, ids) ==
    \E reply \in Replies(req, fault, ids) :
        /\ calendar_events' = reply.events
        /\ last' = [op |-> "proxy", result |-> reply.result, cascaded |-> 0,
                    request |-> req, response |-> reply.response,
                    store_ops |-> reply.store_ops]
        /\ UNCHANGED <<clients, client_categories, tasks, task_comments,
                       task_attachments, meetings, frame>>

\* ------------------------------------------------ storage.objects
\* INSERT INTO storage.buckets (id, ...) VALUES ('task-attachments', ...)
AttachmentsBucket == "task-attachments"

\* storage.foldername(name): the segments of the path before the last one,
\* which is the file name. A name is the sequence of its segments.
foldername(name) == SubSeq(name, 1, Len(name) - 1)
\* (storage.foldername(name))[1]: null when the object lies in no folder
FirstFolder(name) ==
    IF foldername(name) = << >> THEN NullText ELSE foldername(name)[1]

\* Mutant: the bucket alone decides
ObjectsInsertCheck_AnyFolder(u, obj) == obj.bucket_id = AttachmentsBucket
\* "Users can upload attachments"
ObjectsInsertCheck(u, obj) ==
    obj.bucket_id = AttachmentsBucket /\ u = FirstFolder(obj.name)
\* "Users can view their attachments"
ObjectsSelectUsing(u, obj) ==
    obj.bucket_id = AttachmentsBucket /\ u = FirstFolder(obj.name)
\* "Users can delete their attachments"
ObjectsDeleteUsing(u, obj) ==
    obj.bucket_id = AttachmentsBucket /\ u = FirstFolder(obj.name)

\* storage.from(bucket).upload(path, file), without upsert: an object of that
\* name is not replaced
ObjectUploadError(u, obj) ==
    IF ~ObjectsInsertCheck(u, obj) THEN "rls"
    ELSE IF obj \in objects THEN "exists"
    ELSE "ok"

UploadObject(u, obj) ==
    LET err == ObjectUploadError(u, obj)
    IN /\ objects' = IF err = "ok" THEN objects \cup {obj} ELSE objects
       /\ last' = Outcome("upload_object", err)
       /\ UNCHANGED <<store, upload, view>>

\* storage.from(bucket).download(path)
ReadObject(u, obj) ==
    LET data == {o \in objects : o = obj /\ ObjectsSelectUsing(u, o)}
    IN /\ last' = [op |-> "read_object",
                   result |-> IF data = {} THEN "empty" ELSE "ok",
                   cascaded |-> 0, data |-> data]
       /\ UNCHANGED <<store, frame>>

\* storage.from(bucket).remove([path])
RemoveObject(u, obj) ==
    LET target == {o \in objects : o = obj /\ ObjectsSelectUsing(u, o)
                                   /\ ObjectsDeleteUsing(u, o)}
    IN /\ objects' = objects \ target
       /\ last' = Outcome("remove_object", IF target = {} THEN "empty" ELSE "ok")
       /\ UNCHANGED <<store, upload, view>>

\* ------------------------------------------------ handleFileUpload
\* How a run ends: the finally block, setUploading(false). The variables of
\* the handler are gone with it.
EndUpload == [NotUploading EXCEPT !.uploading = FALSE]

\* `${userData.user.id}/${fileName}`
FilePath(user, fileName) == <<user, fileName>>
\* storage.from('task-attachments').getPublicUrl(filePath)
getPublicUrl(bucket, path) == <<"object", "public", bucket>> \o path

\* The file input changed with n files chosen, up to the first await. With no
\* file the handler returns at once; the input is disabled while uploading.
StartUpload(task, n) ==
    /\ upload.pc = "idle"
    /\ n > 0
    /\ upload' = [pc |-> "getUser", uploading |-> TRUE, user |-> NullText,
                  task |-> task, files |-> n, path |-> << >>]
    /\ UNCHANGED <<store, last, objects, view>>

\* await supabase.auth.getUser(); if (!userData.user) return
GetUploadUser(session) ==
    /\ upload.pc = "getUser"
    /\ upload' = IF session = NullText THEN EndUpload
                 ELSE [upload EXCEPT !.pc = "upload", !.user = session]
    /\ UNCHANGED <<store, last, objects, view>>

\* The upload of the file in hand under a fresh name; if (uploadError) throw
UploadFile(fileName, fault) ==
    /\ upload.pc = "upload"
    /\ LET obj == [bucket_id |-> AttachmentsBucket,
                   name |-> FilePath(upload.user, fileName)]
           err == IF fault THEN "store_error" ELSE ObjectUploadError(upload.user, obj)
       IN /\ last' = Outcome("upload_object", err)
          /\ IF err = "ok"
             THEN /\ objects' = objects \cup {obj}
                  /\ upload' = [upload EXCEPT !.pc = "insert", !.path = obj.name]
             ELSE /\ objects' = objects
                  /\ upload' = EndUpload
    /\ UNCHANGED <<store, view>>

\* The task_attachments row of the file in hand
UploadRow(id) ==
    [id |-> id, task_id |-> upload.task, user_id |-> upload.user,
     file_url |-> getPublicUrl(AttachmentsBucket, upload.path)]

\* insert into task_attachments; if (dbError) throw; then the next file, or
\* after the last one fetchAttachments
InsertUploadRow(id, fault) ==
    /\ upload.pc = "insert"
    /\ LET row == UploadRow(id)
           err == IF fault THEN "store_error"
                  ELSE AttachmentInsertError(upload.user, row)
       IN /\ last' = Outcome("insert_attachment", err)
          /\ IF err = "ok"
             THEN /\ task_attachments' = task_attachments \cup {row}
                  /\ upload' = [upload EXCEPT
                                   !.files = @ - 1, !.path = << >>,
                                   !.pc = IF upload.files = 1 THEN "fetch" ELSE "upload"]
             ELSE /\ task_attachments' = task_attachments
                  /\ upload' = EndUpload
    /\ UNCHANGED <<clients, client_categories, tasks, task_comments, meetings,
                   calendar_events, objects, view>>

\* await fetchAttachments(), then the finally block
FetchAttachments ==
    /\ upload.pc = "fetch"
    /\ upload' = EndUpload
    /\ UNCHANGED <<store, last, objects, view>>

\* ------------------------------------------------ TasksTable
\* The query of fetchTasks: the tasks the session may read, of the selected
\* client and category when both are given (the order of the list left out)
Query(u, selection) ==
    {t \in tasks :
        /\ TasksSelectUsing(u, t)
        /\ (selection.client_id # NullId /\ selection.category # NullText) =>
              (t.client_id = selection.client_id /\ t.category = selection.category)}

\* useEffect(() => { fetchTasks(); ... }, [selectedClientId, selectedCategory]):
\* the effect runs after the first render and after each render with another
\* selection; fetchTasks runs up to its await: setLoading(true), and the query
\* built from the selection of that render.
Render(u, selection, max) ==
    /\ view.changes < max
    /\ view.changes = 0 \/ selection # view.selection
    /\ view' = [view EXCEPT
                   !.selection = selection,
                   !.loading = TRUE,
                   !.changes = @ + 1,
                   !.pending = @ \cup {[n |-> view.changes + 1, user |-> u,
                                        selection |-> selection]}]
    /\ UNCHANGED <<store, last, objects, upload>>

\* The rest of a fetchTasks call when its query is answered: setTasks(data)
\* (setTasks([]) in the catch block, when the query failed), then
\* setLoading(false) in the finally block
Complete(f, fault) ==
    /\ f \in view.pending
    /\ view' = [view EXCEPT
                   !.tasks = IF fault THEN {} ELSE Query(f.user, f.selection),
                   !.from = f.n,
                   !.loading = FALSE,
                   !.pending = @ \ {f}]
    /\ UNCHANGED <<store, last, objects, upload>>

\* ------------------------------------------------ CalendarPage
\* Mutant: the page reading the events of the proxy as well
FetchedMeetings_WithEvents(u) ==
    {m \in meetings : MeetingsSelectUsing(u, m)} \cup ListRows(u)
\* supabase.from('meetings').select('*'): the meetings the session may read
\* (the order of the list left out)
FetchedMeetings(u) == {m \in meetings : MeetingsSelectUsing(u, m)}

\* fetchMeetings: what setMeetings receives
FetchMeetings(u) ==
    /\ last' = [op |-> "fetch_meetings", result |-> "ok", cascaded |-> 0,
                data |-> FetchedMeetings(u)]
    /\ UNCHANGED <<store, frame>>

\* MeetingDetails handleUpdate: UPDATE meetings SET title, ... WHERE id
MeetingChange(m, title) == [user_id |-> m.user_id, title |-> title]

\* ------------------------------------------------ inputs
ClientNames == {"Acme"}
EventTitles == {"Standup", "Review"}

ClientRows == [id : ClientIds, user_id : Users, name : ClientNames]
ClientChanges == [user_id : Users, name : ClientNames]
\* Client rows of the provisioning specification: two clients may share a name
ProvisionNames == {"Acme", "Beta"}
ProvisionRows == [id : ProvisionIds, user_id : Users, name : ProvisionNames]
ProvisionChanges == [user_id : Users, name : ProvisionNames]
CategoryInputs == [client_id : ProvisionIds, category : CategoryTags \cup {"other"}]
\* Category rows of the specification over the five tables: a row the trigger
\* has inserted for a stored client
OwnCategoryInputs == [client_id : ClientIds, category : {"tasks"}]

\* Task rows of the ownership specification: the column defaults
OwnTaskRows ==
    [id : TaskIds, user_id : Users, client_id : ClientIds \cup {NullId},
     category : {"tasks"}, status : {"Pending"}, priority : {"Medium"}]
OwnTaskChanges ==
    [user_id : Users, client_id : ClientIds \cup {NullId},
     category : {"tasks"}, status : {"Pending"}, priority : {"Medium"}]

\* Task rows of the column specification: every value the CHECKs of status
\* and priority accept, a value each does not, and null; one column varies
\* while the other holds its default, and both are refused together
FieldStatuses == TaskStatus \cup {"Blocked", NullText}
FieldPriorities == TaskPriority \cup {"Critical", NullText}
FieldValues ==
    {<<s, "Medium">> : s \in FieldStatuses}
       \cup {<<"Pending", p>> : p \in FieldPriorities}
       \cup {<<"Blocked", "Critical">>, <<NullText, NullText>>}
FieldTaskRows ==
    {[id |-> i, user_id |-> o, client_id |-> NullId, category |-> "tasks",
      status |-> v[1], priority |-> v[2]] :
        i \in FieldTaskIds, o \in Users, v \in FieldValues}
FieldTaskChanges ==
    {[user_id |-> o, client_id |-> NullId, category |-> "tasks",
      status |-> v[1], priority |-> v[2]] : o \in Users, v \in FieldValues}

\* Task inserts of the category specification: with and without a client,
\* with a category the CHECK accepts, one it does not, null, and none given
TagCategories == CategoryTags \cup {"other", NullText}
TagClientRows(u) == [id : TagClientIds, user_id : {u}, name : {"Acme"}]
\* The caller's own rows, as addTask sends them
TagTaskInputs(u) ==
    [id : TagTaskIds, user_id : {u}, client_id : TagClientIds \cup {NullId},
     category : TagCategories]
    \cup [id : TagTaskIds, user_id : {u}, client_id : TagClientIds \cup {NullId}]
    \cup [id : TagTaskIds, user_id : {u}]
\* UPDATE tasks SET category = c on a task t
TagTaskChange(t, c) ==
    [user_id |-> t.user_id, client_id |-> t.client_id, category |-> c,
     status |-> t.status, priority |-> t.priority]

CommentRows == [id : CommentIds, task_id : TaskIds, user_id : Users]
CommentChanges == [task_id : TaskIds, user_id : Users]
\* Rows of the comment specification: tasks without a client, and their comments
CommentTaskRows ==
    [id : CommentTaskIds, user_id : Users, client_id : {NullId},
     category : {"tasks"}, status : {"Pending"}, priority : {"Medium"}]
TaskCommentRows == [id : CommentIds, task_id : CommentTaskIds, user_id : Users]
TaskCommentChanges == [task_id : CommentTaskIds, user_id : Users]
AttachmentRows == [id : AttachmentIds, task_id : TaskIds, user_id : Users]
MeetingRows == [id : EventIds, user_id : Users, title : EventTitles]
EventDates == {1, 2}
EventRows ==
    [id : EventIds, user_id : Users, title : EventTitles, date : {1},
     google_event_id : {NullText}]
EventChanges == [user_id : Users, title : EventTitles]

\* Requests to the proxy. A body that does not parse (an empty one included),
\* and bodies that parse: each carries a user_id, an id and a google_event_id
\* besides the fields the handler reads; one has a null title.
NoBody ==
    [json |-> FALSE, title |-> NullText, date |-> 1, user_id |-> NullText,
     id |-> NullId, google_event_id |-> NullText]
EventBodies ==
    [json : {TRUE}, title : {"Standup"}, date : EventDates, user_id : Users,
     id : {1}, google_event_id : {"g1"}]
       \cup {[json |-> TRUE, title |-> NullText, date |-> 1, user_id |-> "u1",
              id |-> 1, google_event_id |-> "g1"]}
Request(authorization, action, id, body) ==
    [method |-> "POST", authorization |-> authorization, action |-> action,
     id |-> id, body |-> body]
\* The header of a signed-in identity; of a session that has expired; none
UserHeaders == {<<"Bearer ", u>> : u \in Users}
BadHeaders == {<<"Bearer ", "expired">>, << >>}
Preflight ==
    [method |-> "OPTIONS", authorization |-> << >>, action |-> NullText,
     id |-> NullId, body |-> NoBody]
Requests ==
    {Preflight}
       \cup {Request(h, a, NullId, NoBody) : h \in BadHeaders, a \in {"list", "delete"}}
       \cup {Request(h, a, NullId, NoBody) : h \in UserHeaders, a \in {"list", "sync", NullText}}
       \cup {Request(h, "create", NullId, b) :
                h \in UserHeaders, b \in EventBodies \cup {NoBody}}
       \cup {Request(h, "update", id, b) :
                h \in UserHeaders, id \in ProxyEventIds \cup {NullId},
                b \in EventBodies \cup {NoBody}}
       \cup {Request(h, "delete", id, NoBody) :
                h \in UserHeaders, id \in ProxyEventIds \cup {NullId}}
\* Rows and changes of the owner specification: the rows each identity
\* inserts as its own, and changes that name any owner; one value for every
\* other column
OwnedClientRows(u) == [id : OwnedIds, user_id : {u}, name : {"Acme"}]
OwnedTaskRows(u) ==
    [id : OwnedIds, user_id : {u}, client_id : {NullId}, category : {"tasks"},
     status : {"Pending"}, priority : {"Medium"}]
OwnedMeetingRows(u) == [id : OwnedIds, user_id : {u}, title : {"Standup"}]
OwnedEventRows(u) ==
    [id : OwnedIds, user_id : {u}, title : {"Standup"}, date : {1},
     google_event_id : {NullText}]
OwnerChanges == [user_id : Users, name : {"Acme"}, title : {"Standup"}]
OwnedTaskChanges ==
    [user_id : Users, client_id : {NullId}, category : {"tasks"},
     status : {"Pending"}, priority : {"Medium"}]
\* Updates through the proxy, each with a user_id in its body
OwnerRequests ==
    {Request(h, "update", id, b) :
        h \in UserHeaders, id \in OwnedIds,
        b \in {e \in EventBodies : e.title # NullText /\ e.date = 1}}

\* Rows of the cascade specification: what each identity inserts as its own,
\* under any parent
CascadeClientRows(u) == [id : ClientIds, user_id : {u}, name : ClientNames]
CascadeTaskRows(u) ==
    [id : TaskIds, user_id : {u}, client_id : ClientIds \cup {NullId},
     category : {"tasks"}, status : {"Pending"}, priority : {"Medium"}]
CascadeTaskChanges(u) ==
    [user_id : {u}, client_id : ClientIds \cup {NullId},
     category : {"tasks"}, status : {"Pending"}, priority : {"Medium"}]
CascadeCommentRows(u) == [id : CommentIds, task_id : TaskIds, user_id : {u}]
CascadeCommentChanges(u) == [task_id : TaskIds, user_id : {u}]
CascadeAttachmentRows(u) == [id : AttachmentIds, task_id : TaskIds, user_id : {u}]

\* The selections of a TasksTable: none, or a client and a category; the
\* tasks of its specification
ViewSelections == {NoSelection} \cup [client_id : ViewClientIds, category : {"tasks", "gtm"}]
ViewTaskRows(u) ==
    [id : ViewTaskIds, user_id : {u}, client_id : {NullId}, category : {"tasks"},
     status : {"Pending"}, priority : {"Medium"}]

\* The meetings MeetingModal saves: of the session, with a fresh id
SyncMeetingRows(u) == [id : SyncIds, user_id : {u}, title : EventTitles]

\* Calls of the calendar library: signed in, or with no session; the events
\* it sends are JSON
LibSessions == Users \cup {"undefined"}
LibEvents == {b \in EventBodies : b.date = 1 /\ b.user_id = "u1"}
Networks == {"answers", "rejects", "garbled"}
\* Direct statements on the events of the proxy specification
ProxyEventChanges == [user_id : Users, title : {"Standup"}]
\* Task rows of the lookup specification: the column defaults, no client
LookupTaskRows ==
    [id : LookupTaskIds, user_id : Users, client_id : {NullId},
     category : {"tasks"}, status : {"Pending"}, priority : {"Medium"}]

\* Object names: in a folder of an identity, nested, in another folder, in no
\* folder at all
FileNames == {"a", "b"}
ObjectNames ==
    {FilePath(u, "a") : u \in Users}
    \cup {<<"a">>, <<"u1">>, <<"u1", "u2", "a">>, <<"shared", "u2", "a">>}
\* The objects of direct requests: those names in the bucket of the
\* attachments, and one in another bucket
ObjectInputs ==
    [bucket_id : {AttachmentsBucket}, name : ObjectNames]
    \cup {[bucket_id |-> "avatars", name |-> FilePath("u1", "a")]}
\* The task of the panel in the storage specification
StorageTaskRows ==
    [id : {1}, user_id : {"u1"}, client_id : {NullId}, category : {"tasks"},
     status : {"Pending"}, priority : {"Medium"}]
UploadTaskRows ==
    [id : UploadTaskIds, user_id : Users, client_id : {NullId}, category : {"tasks"},
     status : {"Pending"}, priority : {"Medium"}]

\* ------------------------------------------------ the calendar library
\* listCalendarEvents, createCalendarEvent, updateCalendarEvent and
\* deleteCalendarEvent of googleCalendar.ts, by the action each requests
LibFunctions == {"list", "create", "update", "delete"}

\* getAuthHeaders: 'Authorization': `Bearer ${session?.access_token}`; without
\* a session the token reads "undefined"
getAuthHeaders(session) == <<"Bearer ", session>>

\* The one fetch of a function: list sends no body and no id, create no id,
\* delete no body
LibRequest(fn, session, id, event) ==
    Request(getAuthHeaders(session), fn,
            IF fn \in {"update", "delete"} THEN id ELSE NullId,
            IF fn \in {"create", "update"} THEN event ELSE NoBody)

\* JavaScript values a function returns
Array(items) == [type |-> "array", items |-> items]
Null == [type |-> "null"]
Object(row) == [type |-> "object", row |-> row]
Boolean(b) == [type |-> "boolean", bool |-> b]

\* How a block of code completes
Return(value) == [kind |-> "return", value |-> value]
Throw(message) == [kind |-> "throw", value |-> [type |-> "error", message |-> message]]

\* response.ok
Ok(response) == response.status \in 200..299

\* What each catch block returns
FailureValue(fn) ==
    CASE fn = "list" -> Array(<< >>)
      [] fn = "delete" -> Boolean(FALSE)
      [] OTHER -> Null

\* data.events || [] of list, data.event of create and update (undefined,
\* taken as null, when the answer has none)
Parsed(fn, body) ==
    IF fn = "list"
    THEN Array(IF "events" \in DOMAIN body THEN body.events ELSE << >>)
    ELSE IF "event" \in DOMAIN body THEN Object(body.event) ELSE Null

\* The try block after its fetch. net: "rejects", fetch rejected and there
\* is no response; "garbled", the body of the response is not JSON and
\* response.json() rejects; "answers" otherwise.
TryBlock(fn, net, response) ==
    IF net = "rejects" THEN Throw("TypeError")
    ELSE IF ~Ok(response) THEN Throw("Failed")
    ELSE IF fn = "delete" THEN Return(Boolean(TRUE))
    ELSE IF net = "garbled" THEN Throw("SyntaxError")
    ELSE Return(Parsed(fn, response.body))

\* Mutant: a function without its catch block
Caught_Rethrown(fn, completion) == completion
\* catch (error) { console.error(...); return <failure value> }
Caught(fn, completion) ==
    IF completion.kind = "throw" THEN Return(FailureValue(fn)) ELSE completion

\* One call of a function of the library. A fetch that rejects may or may not
\* have reached the handler (reached); requests counts the calls of fetch.
LibCall(fn, session, id, event, net, reached, fault, ids) ==
    LET req == LibRequest(fn, session, id, event)
    IN \E reply \in Replies(req, fault, ids) :
          LET completion == Caught(fn, TryBlock(fn, net, reply.response))
          IN /\ calendar_events' = IF net = "rejects" /\ ~reached
                                   THEN calendar_events ELSE reply.events
             /\ last' = [op |-> "lib", result |-> reply.result, cascaded |-> 0,
                         fn |-> fn, request |-> req, requests |-> 1, net |-> net,
                         response |-> reply.response, completion |-> completion]
             /\ UNCHANGED <<clients, client_categories, tasks, task_comments,
                            task_attachments, meetings, frame>>

\* ------------------------------------------------ specifications
\* Clients, categories, tasks, comments and attachments under any identities.
\* Rows are inserted the way the components insert them, without an id.
Next ==
    \E u \in Users :
        \/ \E row \in ClientRows :
              row.id \in DefaultId(clients, ClientIds) /\ InsertClient(u, row, 0)
        \/ \E id \in ClientIds, new \in ClientChanges : UpdateClient(u, id, new)
        \/ \E id \in ClientIds : DeleteClient(u, id)
        \/ \E row \in OwnCategoryInputs : InsertCategory(u, row)
        \/ \E row \in OwnCategoryInputs : UpdateCategory(u, row, "gtm")
        \/ \E row \in OwnCategoryInputs : DeleteCategory(u, row)
        \/ \E row \in OwnTaskRows :
              row.id \in DefaultId(tasks, TaskIds) /\ InsertTask(u, row)
        \/ \E id \in TaskIds, new \in OwnTaskChanges : UpdateTask(u, id, new)
        \/ \E id \in TaskIds : DeleteTask(u, id)
        \/ \E row \in CommentRows :
              row.id \in DefaultId(task_comments, CommentIds) /\ InsertComment(u, row)
        \/ \E id \in CommentIds, new \in CommentChanges : UpdateComment(u, id, new)
        \/ \E id \in CommentIds : DeleteComment(u, id)
        \/ \E row \in AttachmentRows :
              /\ row.id \in DefaultId(task_attachments, AttachmentIds)
              /\ InsertAttachment(u, row)
        \/ \E id \in AttachmentIds : DeleteAttachment(u, id)

Spec == Init /\ [][Next]_vars

\* Clients and their categories alone
NextProvision ==
    \E u \in Users :
        \/ \E row \in ProvisionRows, fault \in Faults : InsertClient(u, row, fault)
        \/ \E id \in ProvisionIds, new \in ProvisionChanges : UpdateClient(u, id, new)
        \/ \E id \in ProvisionIds : DeleteClient(u, id)
        \/ \E row \in CategoryInputs : InsertCategory(u, row)
        \/ \E row \in CategoryInputs, tag \in CategoryTags : UpdateCategory(u, row, tag)
        \/ \E row \in CategoryInputs : DeleteCategory(u, row)

SpecProvision == Init /\ [][NextProvision]_vars

\* The status and priority columns of tasks under accepted and rejected values
NextFields ==
    \E u \in Users :
        \/ \E row \in FieldTaskRows : InsertTask(u, row)
        \/ \E id \in FieldTaskIds, new \in FieldTaskChanges : UpdateTask(u, id, new)
        \/ \E id \in FieldTaskIds : DeleteTask(u, id)

SpecFields == Init /\ [][NextFields]_vars

\* Tasks and their comments alone
NextComments ==
    \E u \in Users :
        \/ \E row \in CommentTaskRows : InsertTask(u, row)
        \/ \E id \in CommentTaskIds : DeleteTask(u, id)
        \/ \E row \in TaskCommentRows : InsertComment(u, row)
        \/ \E id \in CommentIds, new \in TaskCommentChanges : UpdateComment(u, id, new)
        \/ \E id \in CommentIds : DeleteComment(u, id)

SpecComments == Init /\ [][NextComments]_vars

\* Meetings and calendar events under any identities
NextCalendar ==
    \E u \in Users :
        \/ \E row \in MeetingRows : InsertMeeting(u, row)
        \/ \E id \in EventIds, new \in EventChanges : UpdateMeeting(u, id, new)
        \/ \E id \in EventIds : DeleteMeeting(u, id)
        \/ \E row \in EventRows : InsertEvent(u, row)
        \/ \E id \in EventIds, new \in EventChanges : UpdateEvent(u, id, new)
        \/ \E id \in EventIds : DeleteEvent(u, id)

SpecCalendar == Init /\ [][NextCalendar]_vars

\* The event proxy alone
NextProxy ==
    \E req \in Requests, fault \in BOOLEAN : Serve(req, fault, ProxyEventIds)

SpecProxy == Init /\ [][NextProxy]_vars

\* Lookups by id: the proxy, direct statements on its events, and tasks
NextLookup ==
    \/ \E req \in Requests : Serve(req, FALSE, ProxyEventIds)
    \/ \E u \in Users :
          \/ \E id \in ProxyEventIds, new \in ProxyEventChanges : UpdateEvent(u, id, new)
          \/ \E id \in ProxyEventIds : DeleteEvent(u, id)
          \/ \E row \in LookupTaskRows : InsertTask(u, row)
          \/ \E id \in LookupTaskIds : FetchTask(u, id)

SpecLookup == Init /\ [][NextLookup]_vars

\* Inserts and updates of the rows that have an owner, direct and through
\* the proxy
NextOwner ==
    \/ \E u \in Users :
          \/ \E row \in OwnedClientRows(u) :
                row.id \in DefaultId(clients, OwnedIds) /\ InsertClient(u, row, 0)
          \/ \E id \in OwnedIds, new \in OwnerChanges : UpdateClient(u, id, new)
          \/ \E row \in OwnedTaskRows(u) :
                row.id \in DefaultId(tasks, OwnedIds) /\ InsertTask(u, row)
          \/ \E id \in OwnedIds, new \in OwnedTaskChanges : UpdateTask(u, id, new)
          \/ \E row \in OwnedMeetingRows(u) :
                row.id \in DefaultId(meetings, OwnedIds) /\ InsertMeeting(u, row)
          \/ \E id \in OwnedIds, new \in OwnerChanges : UpdateMeeting(u, id, new)
          \/ \E row \in OwnedEventRows(u) :
                row.id \in DefaultId(calendar_events, OwnedIds) /\ InsertEvent(u, row)
          \/ \E id \in OwnedIds, new \in OwnerChanges : UpdateEvent(u, id, new)
    \/ \E req \in OwnerRequests : Serve(req, FALSE, OwnedIds)

SpecOwner == Init /\ [][NextOwner]_vars

\* One TasksTable of the session of u1 under changing selections, with task
\* inserts
NextView ==
    \/ \E u \in Users : \E row \in ViewTaskRows(u) : InsertTask(u, row)
    \/ \E selection \in ViewSelections : Render("u1", selection, MaxSelections)
    \/ \E f \in view.pending, fault \in BOOLEAN : Complete(f, fault)

SpecView == Init /\ [][NextView]_vars

\* The calendar page (MeetingModal, MeetingDetails, fetchMeetings) next to
\* the proxy
NextSync ==
    \/ \E u \in Users :
          \/ \E row \in SyncMeetingRows(u) :
                row.id \in DefaultId(meetings, SyncIds) /\ InsertMeeting(u, row)
          \/ \E m \in meetings, title \in EventTitles :
                UpdateMeeting(u, m.id, MeetingChange(m, title))
          \/ \E id \in SyncIds : DeleteMeeting(u, id)
          \/ FetchMeetings(u)
    \/ \E req \in Requests : Serve(req, FALSE, SyncIds)

SpecSync == Init /\ [][NextSync]_vars

\* Parents and children: the rows each identity inserts as its own, moves to
\* another parent and deletes
NextCascade ==
    \E u \in Users :
        \/ \E row \in CascadeClientRows(u) :
              row.id \in DefaultId(clients, ClientIds) /\ InsertClient(u, row, 0)
        \/ \E id \in ClientIds : DeleteClient(u, id)
        \/ \E row \in CascadeTaskRows(u) :
              row.id \in DefaultId(tasks, TaskIds) /\ InsertTask(u, row)
        \/ \E id \in TaskIds, new \in CascadeTaskChanges(u) : UpdateTask(u, id, new)
        \/ \E id \in TaskIds : DeleteTask(u, id)
        \/ \E row \in CascadeCommentRows(u) :
              row.id \in DefaultId(task_comments, CommentIds) /\ InsertComment(u, row)
        \/ \E id \in CommentIds, new \in CascadeCommentChanges(u) :
              UpdateComment(u, id, new)
        \/ \E row \in CascadeAttachmentRows(u) :
              /\ row.id \in DefaultId(task_attachments, AttachmentIds)
              /\ InsertAttachment(u, row)

SpecCascade == Init /\ [][NextCascade]_vars

\* The calendar library in front of the proxy
NextLib ==
    \E fn \in LibFunctions, session \in LibSessions, id \in LibEventIds,
       event \in LibEvents, net \in Networks, reached, fault \in BOOLEAN :
        /\ net # "rejects" => reached
        /\ LibCall(fn, session, id, event, net, reached, fault, LibEventIds)

SpecLib == Init /\ [][NextLib]_vars

\* The category column of tasks, with and without a client
NextCategory ==
    \E u \in Users :
        \/ \E row \in TagClientRows(u) :
              row.id \in DefaultId(clients, TagClientIds) /\ InsertClient(u, row, 0)
        \/ \E input \in TagTaskInputs(u) :
              /\ input.id \in DefaultId(tasks, TagTaskIds)
              /\ InsertTask(u, TaskDefaults(input))
        \/ \E t \in tasks, c \in TagCategories :
              UpdateTask(u, t.id, TagTaskChange(t, c))
        \/ \E id \in TagTaskIds : DeleteTask(u, id)

SpecCategory == Init /\ [][NextCategory]_vars

\* The attachment objects: direct requests to the storage, and the upload
\* flow of the panel of a task of u1, in the session of any identity
NextStorage ==
    \/ \E u \in Users, obj \in ObjectInputs :
          \/ UploadObject(u, obj)
          \/ ReadObject(u, obj)
          \/ RemoveObject(u, obj)
    \/ \E row \in StorageTaskRows : InsertTask(row.user_id, row)
    \/ \E row \in StorageTaskRows, n \in 1..MaxStorageFiles : StartUpload(row.id, n)
    \/ \E session \in Users \cup {NullText} : GetUploadUser(session)
    \/ \E f \in FileNames : UploadFile(f, FALSE)
    \/ \E id \in DefaultId(task_attachments, StorageRowIds) : InsertUploadRow(id, FALSE)
    \/ FetchAttachments

SpecStorage == Init /\ [][NextStorage]_vars

\* The upload flow of a task panel under failing requests, with the task
\* statements that can interleave with it
NextUpload ==
    \/ \E u \in Users :
          \/ \E row \in UploadTaskRows : InsertTask(u, row)
          \/ \E id \in UploadTaskIds : DeleteTask(u, id)
    \/ \E task \in UploadTaskIds, n \in 1..MaxFiles : StartUpload(task, n)
    \/ \E session \in Users \cup {NullText} : GetUploadUser(session)
    \/ \E f \in FileNames, fault \in BOOLEAN : UploadFile(f, fault)
    \/ \E id \in DefaultId(task_attachments, UploadRowIds), fault \in BOOLEAN :
          InsertUploadRow(id, fault)
    \/ FetchAttachments

SpecUpload == Init /\ [][NextUpload]_vars

\* ================================================================ claims

CategoriesOf(cid, cats) == {r \in BagToSet(cats) : r.client_id = cid}

\* One row for each of tasks, gtm and recurring, and no row with another tag
HasDefaultCategories(cid, cats) ==
    /\ \A tag \in CategoryTags : CopiesIn(CategoryRow(cid, tag), cats) = 1
    /\ \A r \in CategoriesOf(cid, cats) : r.category \in CategoryTags

OwnedClient(u, cid, cl) == \E c \in cl : c.id = cid /\ c.user_id = u
OwnedTask(u, tid, tk) == \E t \in tk : t.id = tid /\ t.user_id = u
OwnerOfCategory(r, cl) == {c.user_id : c \in {x \in cl : x.id = r.client_id}}

\* C1: an insert of a client that succeeds adds one client, and with it
\* exactly three category rows for that client: tasks, gtm and recurring.
C1_InsertProvisionsCategories ==
    [][(last'.op = "insert_client" /\ last'.result = "ok") =>
          /\ Cardinality(clients' \ clients) = 1
          /\ \A c \in clients' \ clients :
                /\ HasDefaultCategories(c.id, client_categories')
                /\ Cardinality(CategoriesOf(c.id, client_categories')) = 3]_vars

C1_Witness ==
    /\ last.op = "insert_client" /\ last.result = "ok"
    /\ Cardinality(clients) = MaxProvisionClients

\* C2: whatever statements were issued, by whatever identity, every client
\* has exactly one category row per tag of tasks, gtm, recurring and no other.
C2_EveryClientHasItsCategories ==
    \A c \in clients : HasDefaultCategories(c.id, client_categories)

C2_Witness ==
    /\ \E c1, c2 \in clients : c1.user_id # c2.user_id
    /\ last.op = "delete_category" /\ last.result = "empty"

\* C3: an insert of a client that fails leaves the store as it was; when the
\* insert of a default category fails inside the trigger, the insert of the
\* client fails and neither the client nor any of its categories is stored.
C3_ClientInsertAtomic ==
    [][/\ (last'.op = "insert_client" /\ last'.result # "ok") => UNCHANGED store
       /\ \A u \in Users, row \in ProvisionRows, fault \in Faults \ {0} :
             (row.id \notin Ids(clients) /\ InsertClient(u, row, fault)) =>
                /\ last'.result # "ok"
                /\ row.id \notin Ids(clients')
                /\ CategoriesOf(row.id, client_categories') = {}]_vars

C3_Witness ==
    /\ last.op = "insert_client" /\ last.result = "store_error"
    /\ clients # {}

\* The rows of each table that an identity can read
VisibleClients(u) == {c \in clients : ClientsSelectUsing(u, c)}
VisibleCategories(u) ==
    {r \in BagToSet(client_categories) : CategoriesSelectUsing(u, r, clients)}
VisibleTasks(u) == {t \in tasks : TasksSelectUsing(u, t)}
VisibleComments(u) == {c \in task_comments : CommentsSelectUsing(u, c, tasks)}
VisibleAttachments(u) == {a \in task_attachments : AttachmentsSelectUsing(u, a, tasks)}

\* An update or a delete issued by u, of any table of the ownership
\* specification
ChangeBy(u) ==
    \/ \E id \in ClientIds, new \in ClientChanges : UpdateClient(u, id, new)
    \/ \E id \in ClientIds : DeleteClient(u, id)
    \/ \E row \in OwnCategoryInputs : UpdateCategory(u, row, "gtm")
    \/ \E row \in OwnCategoryInputs : DeleteCategory(u, row)
    \/ \E id \in TaskIds, new \in OwnTaskChanges : UpdateTask(u, id, new)
    \/ \E id \in TaskIds : DeleteTask(u, id)
    \/ \E id \in CommentIds, new \in CommentChanges : UpdateComment(u, id, new)
    \/ \E id \in CommentIds : DeleteComment(u, id)
    \/ \E id \in AttachmentIds : DeleteAttachment(u, id)

\* C4: an identity reads only rows it owns (a category through its client),
\* and an update or a delete it issues changes or removes no row of another
\* identity, in any table.
C4_NoCrossIdentityAccess ==
    [][\A u \in Users :
          /\ \A c \in VisibleClients(u) : c.user_id = u
          /\ \A r \in VisibleCategories(u) : OwnerOfCategory(r, clients) = {u}
          /\ \A t \in VisibleTasks(u) : t.user_id = u
          /\ \A c \in VisibleComments(u) : c.user_id = u
          /\ \A a \in VisibleAttachments(u) : a.user_id = u
          /\ ChangeBy(u) =>
                /\ \A c \in clients \ clients' : c.user_id = u
                /\ \A r \in BagToSet(client_categories) :
                      CopiesIn(r, client_categories') # CopiesIn(r, client_categories)
                         => OwnerOfCategory(r, clients) = {u}
                /\ \A t \in tasks \ tasks' : t.user_id = u
                /\ \A c \in task_comments \ task_comments' : c.user_id = u
                /\ \A a \in task_attachments \ task_attachments' : a.user_id = u]_vars

\* C5: an insert is accepted only when the row names the caller as its owner
\* and the parent it references (the client of a category or a task, the
\* task of a comment or an attachment) is owned by the caller.
C5_InsertNeedsOwnedParent ==
    [][\A u \in Users :
          /\ \A row \in ClientRows :
                (InsertClient(u, row, 0) /\ last'.result = "ok") => row.user_id = u
          /\ \A row \in OwnCategoryInputs :
                (InsertCategory(u, row) /\ last'.result = "ok")
                   => OwnedClient(u, row.client_id, clients)
          /\ \A row \in OwnTaskRows :
                (InsertTask(u, row) /\ last'.result = "ok") =>
                   /\ row.user_id = u
                   /\ row.client_id # NullId => OwnedClient(u, row.client_id, clients)
          /\ \A row \in CommentRows :
                (InsertComment(u, row) /\ last'.result = "ok") =>
                   /\ row.user_id = u
                   /\ OwnedTask(u, row.task_id, tasks)
          /\ \A row \in AttachmentRows :
                (InsertAttachment(u, row) /\ last'.result = "ok") =>
                   /\ row.user_id = u
                   /\ OwnedTask(u, row.task_id, tasks)]_vars

\* C6: a category and a task with a client refer to a stored client, and a
\* comment and an attachment refer to a stored task: the delete of a client
\* took its categories and tasks with it, the delete of a task its comments
\* and attachments, and no reference to a removed parent is left.
C6_NoDanglingReference ==
    /\ \A r \in BagToSet(client_categories) : r.client_id \in Ids(clients)
    /\ \A t \in tasks : t.client_id # NullId => t.client_id \in Ids(clients)
    /\ \A c \in task_comments : c.task_id \in Ids(tasks)
    /\ \A a \in task_attachments : a.task_id \in Ids(tasks)

\* The delete of a client removed a task, its comment and its attachment
C6_Witness ==
    /\ last.op = "delete_client" /\ last.result = "ok"
    /\ last.cascaded = 3
    /\ clients = {} /\ tasks = {} /\ client_categories = EmptyBag

\* C7: no stored task has a status other than Pending, In-Progress and
\* Completed; an insert or an update that sets another status is rejected
\* and leaves the store as it was.
C7_StatusEnumerated ==
    [][/\ \A t \in tasks' : t.status \in TaskStatus
       /\ \A u \in Users, row \in FieldTaskRows :
             (row.status \notin TaskStatus /\ InsertTask(u, row)) =>
                /\ last'.result \notin {"ok", "empty"}
                /\ UNCHANGED store
       /\ \A u \in Users, id \in FieldTaskIds, new \in FieldTaskChanges :
             (new.status \notin TaskStatus /\ UpdateTask(u, id, new)) =>
                /\ last'.result # "ok"
                /\ OwnedTask(u, id, tasks) => last'.result # "empty"
                /\ UNCHANGED store]_vars

C7_Witness ==
    /\ last.op = "update_task" /\ last.result = "tasks_status_check"
    /\ tasks # {}

\* C8: the priority of every stored task is one of Low, Medium, High and
\* Urgent, and is never null.
C8_PriorityEnumerated ==
    \A t \in tasks : t.priority \in TaskPriority

\* C9: no two category rows have the same client and tag; an insert of a
\* pair that is stored already is rejected, also when the owner of the
\* client issues it, and leaves the store as it was.
C9_CategoryPairUnique ==
    [][/\ \A r \in BagToSet(client_categories') : CopiesIn(r, client_categories') = 1
       /\ \A u \in Users, row \in CategoryInputs :
             (CopiesIn(row, client_categories) > 0 /\ InsertCategory(u, row)) =>
                /\ last'.result \notin {"ok", "empty"}
                /\ UNCHANGED store]_vars

\* The unique key, not the policy, rejected the insert: its caller owns the client
C9_Witness ==
    /\ last.op = "insert_category"
    /\ last.result = "client_categories_client_id_category_key"

\* C10: the author and the task of a stored comment never change.
C10_CommentLinkageImmutable ==
    [][\A c \in task_comments, d \in task_comments' :
          c.id = d.id => (c.user_id = d.user_id /\ c.task_id = d.task_id)]_vars

\* The category rows of the clients other than cid
CategoriesOfOthers(cid, cats) ==
    {<<r, CopiesIn(r, cats)>> : r \in {x \in BagToSet(cats) : x.client_id # cid}}

\* C19: an update of a client never runs the provisioning trigger: it leaves
\* every category row as it was and never fails on the key of (client, tag);
\* the owner's update of a stored client, a rename included, succeeds.
C19_UpdateNeverProvisions ==
    [][\A u \in Users, id \in ProvisionIds, new \in ProvisionChanges :
          UpdateClient(u, id, new) =>
             /\ client_categories' = client_categories
             /\ last'.result \in {"ok", "empty", "rls"}
             /\ (OwnedClient(u, id, clients) /\ new.user_id = u) =>
                   /\ last'.result = "ok"
                   /\ \E c \in clients' : c.id = id /\ c.name = new.name]_vars

\* A client was renamed
C19_Witness ==
    /\ last.op = "update_client" /\ last.result = "ok"
    /\ \E c \in clients : c.name = "Beta" /\ HasDefaultCategories(c.id, client_categories)
    /\ \E c \in clients : c.name = "Acme"

\* C20: the insert of a client under a fresh id by the identity it names
\* succeeds, also when a stored client of the same or of another identity has
\* its name, and the category rows of every other client stay as they were.
C20_InsertTouchesNewClientOnly ==
    [][\A u \in Users, row \in ProvisionRows :
          InsertClient(u, row, 0) =>
             /\ (row.user_id = u /\ row.id \notin Ids(clients)) =>
                   /\ last'.result = "ok"
                   /\ row \in clients'
                   /\ HasDefaultCategories(row.id, client_categories')
             /\ CategoriesOfOthers(row.id, client_categories')
                   = CategoriesOfOthers(row.id, client_categories)]_vars

\* Two clients of one name, of different identities
C20_Witness ==
    /\ last.op = "insert_client" /\ last.result = "ok"
    /\ \E c1, c2 \in clients :
          c1.id # c2.id /\ c1.name = c2.name /\ c1.user_id # c2.user_id

\* ---------------------------------------------------------------- the proxy
\* The identity a request is made as (NullText: none), and what it asked for
CallerOf(req) == getUser(Replace(req.authorization))
Authenticated(req) == req.method # "OPTIONS" /\ CallerOf(req) # NullText
Success(resp) == resp.status \in 200..299
OwnedByAnother(u, id, table) == \E r \in table : r.id = id /\ r.user_id # u

\* C11: a read, an update or a delete aimed at a row of another identity is
\* answered with a denial: a statement on the store raises (it neither
\* succeeds nor finds no row), and the proxy's update and delete by id answer
\* with a status that is no success.
C11_DenialNotEmpty ==
    [][/\ \A u \in Users, id \in LookupTaskIds :
             (OwnedByAnother(u, id, tasks) /\ FetchTask(u, id))
                => last'.result \notin {"ok", "empty"}
       /\ \A u \in Users, id \in ProxyEventIds :
             (/\ OwnedByAnother(u, id, calendar_events)
              /\ \/ DeleteEvent(u, id)
                 \/ \E new \in ProxyEventChanges : UpdateEvent(u, id, new))
                => last'.result \notin {"ok", "empty"}
       /\ (/\ last'.op = "proxy"
           /\ Authenticated(last'.request)
           /\ last'.request.action \in {"update", "delete"}
           /\ last'.request.body.json \/ last'.request.action = "delete"
           /\ OwnedByAnother(CallerOf(last'.request), last'.request.id, calendar_events))
             => ~Success(last'.response)]_vars

\* C12: a request other than the preflight whose credential resolves to no
\* user (invalid, expired or absent) is answered 401 with an error body and
\* no event data, and sends nothing to the store.
C12_UnauthorizedIs401 ==
    [][(/\ last'.op = "proxy"
        /\ last'.request.method # "OPTIONS"
        /\ CallerOf(last'.request) = NullText)
          => /\ last'.response.status = 401
             /\ DOMAIN last'.response.body = {"error"}
             /\ last'.store_ops = 0
             /\ UNCHANGED store]_vars

\* The rows of a listing
Listed(s) == {s[i] : i \in DOMAIN s}

\* C13: the list action answers an authenticated caller, unless the store
\* fails, with the events it owns: each of them once, no other event, and no
\* event before one of a lesser date.
C13_ListIsOwnEventsByDate ==
    [][(/\ last'.op = "proxy"
        /\ Authenticated(last'.request)
        /\ last'.request.action = "list"
        /\ last'.result # "store_error")
          => /\ last'.response.status = 200
             /\ DOMAIN last'.response.body = {"events"}
             /\ LET s == last'.response.body.events
                    own == {e \in calendar_events :
                               e.user_id = CallerOf(last'.request)}
                IN /\ Listed(s) = own
                   /\ Len(s) = Cardinality(own)
                   /\ \A i, j \in DOMAIN s : i < j => s[i].date <= s[j].date
             /\ UNCHANGED store]_vars

\* Two events of the caller listed, of different dates, the later one having
\* the lesser id, while another identity has an event
C13_Witness ==
    /\ last.op = "proxy" /\ last.request.action = "list"
    /\ last.response.status = 200
    /\ Len(last.response.body.events) = 2
    /\ last.response.body.events[1].date < last.response.body.events[2].date
    /\ last.response.body.events[1].id > last.response.body.events[2].id
    /\ \E e \in calendar_events : e.user_id # CallerOf(last.request)

\* C14: the create action adds at most one event; the event it adds is owned
\* by the authenticated caller, has no google_event_id and has an id of the
\* store, whatever user_id, id and google_event_id the body carries.
C14_CreateOwnedBySender ==
    [][(last'.op = "proxy" /\ last'.request.action = "create") =>
          /\ calendar_events \subseteq calendar_events'
          /\ Cardinality(calendar_events' \ calendar_events) <= 1
          /\ Success(last'.response) =>
                /\ Authenticated(last'.request)
                /\ calendar_events' \ calendar_events = {last'.response.body.event}
          /\ \A e \in calendar_events' \ calendar_events :
                /\ e.user_id = CallerOf(last'.request)
                /\ e.google_event_id = NullText
                /\ e.id \in DefaultId(calendar_events, ProxyEventIds)]_vars

\* An event created from a body that names another identity, a stored id and
\* a google_event_id
C14_Witness ==
    /\ last.op = "proxy" /\ last.request.action = "create"
    /\ last.response.status = 200
    /\ last.response.body.event \in calendar_events
    /\ last.request.body.user_id \in Users \ {CallerOf(last.request)}
    /\ last.request.body.google_event_id # NullText
    /\ last.request.body.id # last.response.body.event.id
    /\ last.request.body.id \in Ids(calendar_events)

\* C15: the update and delete actions change or remove no event but the one
\* that has the given id and is owned by the authenticated caller: the events
\* of every other identity stay as they are, whatever id is given.
C15_UpdateDeleteOwnEventOnly ==
    [][(last'.op = "proxy" /\ last'.request.action \in {"update", "delete"}) =>
          /\ \A e \in calendar_events \ calendar_events' :
                /\ e.id = last'.request.id
                /\ e.user_id = CallerOf(last'.request)
          /\ \A e \in calendar_events' \ calendar_events :
                /\ e.id = last'.request.id
                /\ e.user_id = CallerOf(last'.request)
                /\ last'.request.action = "update"
          /\ \A e \in calendar_events :
                e.user_id # CallerOf(last'.request) => e \in calendar_events']_vars

\* An update or a delete by the id of an event of another identity, which is
\* stored still
C15_Witness ==
    /\ last.op = "proxy" /\ last.request.action \in {"update", "delete"}
    /\ Authenticated(last.request) /\ last.store_ops = 1 /\ last.result = "empty"
    /\ OwnedByAnother(CallerOf(last.request), last.request.id, calendar_events)
    /\ \E e \in calendar_events : e.user_id = CallerOf(last.request)

\* A request the handler forwards: one of the four actions, with the id and
\* the JSON body the action needs
WellFormed(req) ==
    \/ req.action = "list"
    \/ req.action = "create" /\ req.body.json
    \/ req.action = "update" /\ req.body.json /\ req.id # NullId
    \/ req.action = "delete" /\ req.id # NullId
LacksActionOrId(req) ==
    \/ req.action \notin {"list", "create", "update", "delete"}
    \/ req.action \in {"update", "delete"} /\ req.id = NullId

\* C16: an authenticated request sends at most one statement to the store:
\* exactly one when it is a well-formed list, create, update or delete, and
\* none, with status 400, when its action is none of the four or its update
\* or delete has no id.
C16_OneStoreOperation ==
    [][(last'.op = "proxy" /\ Authenticated(last'.request)) =>
          /\ last'.store_ops <= 1
          /\ WellFormed(last'.request) => last'.store_ops = 1
          /\ LacksActionOrId(last'.request) =>
                /\ last'.store_ops = 0
                /\ last'.response.status = 400
                /\ UNCHANGED store]_vars

ErrorMessages ==
    {"Unauthorized", "Event ID required", "Invalid action", "TypeError",
     "SyntaxError", "store_error", "not_null", "PGRST116"}

\* C17: a response whose status is no success has a body of the one field
\* error, a string; a statement of a list, create, update or delete that
\* raised in the store is answered with such a response and changes nothing.
C17_FailuresCarryError ==
    [][last'.op = "proxy" =>
          /\ ~Success(last'.response) =>
                /\ DOMAIN last'.response.body = {"error"}
                /\ last'.response.body.error \in ErrorMessages
          /\ last'.result \notin {"ok", "empty", "none"} =>
                /\ ~Success(last'.response)
                /\ UNCHANGED store]_vars

\* A NOT NULL violation of a create, and a failure of the store during a list
C17_Witness ==
    /\ last.op = "proxy" /\ last.response.status = 500
    /\ \/ last.request.action = "create" /\ last.result = "not_null"
       \/ last.request.action = "list" /\ last.result = "store_error"
    /\ calendar_events # {}

\* C18: a lookup by an id that matches no row is no error: fetchTask gives a
\* null task, and the proxy's update and delete by an id that matches no
\* event of the caller answer with a success.
C18_NotFoundIsNoError ==
    [][/\ \A u \in Users, id \in LookupTaskIds :
             (id \notin Ids(tasks) /\ FetchTask(u, id))
                => (last'.result = "empty" /\ last'.data = {})
       /\ (/\ last'.op = "proxy"
           /\ Authenticated(last'.request)
           /\ WellFormed(last'.request)
           /\ last'.request.action \in {"update", "delete"}
           /\ last'.request.body.title # NullText \/ last'.request.action = "delete"
           /\ EventTargets(CallerOf(last'.request), last'.request.id) = {})
             => Success(last'.response)]_vars



\* ---------------------------------------------------------------- the calendar library
\* The call ended in a failure: no response, a response that is not ok, or
\* one whose body the function could not parse
Failed(call) ==
    \/ call.net = "rejects"
    \/ ~Ok(call.response)
    \/ call.net = "garbled" /\ call.fn # "delete"

Insertable(u, row) ==
    /\ TasksInsertCheck(u, row)
    /\ row.id \notin Ids(tasks)
    /\ TaskClientFk(row, clients)

\* C22: the insert of a task without client is accepted when its category is
\* one of tasks, gtm, recurring, and the category is 'tasks' when the insert
\* gives none; an insert or update whose category is outside that set is
\* rejected, with a client and without one.
C22_CategoryOfTask ==
    [][\A u \in Users :
         /\ \A input \in TagTaskInputs(u) :
              LET row == TaskDefaults(input)
              IN last'.op = "insert_task" /\ InsertTask(u, row) =>
                   /\ "category" \notin DOMAIN input => row.category = "tasks"
                   /\ row.client_id = NullId /\ row.category \in CategoryTags
                         /\ Insertable(u, row)
                         => last'.result = "ok" /\ row \in tasks'
                   /\ row.category \notin CategoryTags
                         => last'.result # "ok" /\ tasks' = tasks
         /\ \A t \in tasks, c \in TagCategories \ CategoryTags :
              last'.op = "update_task" /\ UpdateTask(u, t.id, TagTaskChange(t, c))
                 => last'.result # "ok" /\ tasks' = tasks
      ]_vars

\* A task without client is in the store, and a statement with a category
\* outside the set has just been rejected by the CHECK
C22_Witness ==
    /\ \E t \in tasks : t.client_id = NullId /\ t.category \in CategoryTags
    /\ last.result = "tasks_category_check"


\* C24: every task that references a client has the owner of that client, so
\* the cascade of a client delete never removes a task, comment or attachment
\* of an identity other than the one deleting the client.
C24_TaskOwnedByClientOwner ==
    \A t \in tasks :
        t.client_id # NullId =>
            \E c \in clients : c.id = t.client_id /\ c.user_id = t.user_id


\* ---------------------------------------------------------------- owners
\* The rows of a table keep their owners
OwnersKept(old, new) ==
    \A r \in old, q \in new : r.id = q.id => r.user_id = q.user_id
\* The statement was an update: of a table, or through the proxy
IsUpdate(stmt) ==
    \/ stmt.op \in {"update_client", "update_task", "update_meeting", "update_event"}
    \/ stmt.op = "proxy" /\ stmt.request.action = "update"

\* C25: the owner of a client, a task, a meeting or a calendar event never
\* changes: no update, directly on the table or through the update action of
\* the proxy, leaves a row with another user_id.
C25_OwnerNeverChanges ==
    [][IsUpdate(last') =>
          /\ OwnersKept(clients, clients')
          /\ OwnersKept(tasks, tasks')
          /\ OwnersKept(meetings, meetings')
          /\ OwnersKept(calendar_events, calendar_events')
      ]_vars

\* All four tables hold a row, and an update that named another owner has
\* just been refused
C25_Witness ==
    /\ clients # {} /\ tasks # {} /\ meetings # {} /\ calendar_events # {}
    /\ IsUpdate(last) /\ last.result = "rls"


\* ---------------------------------------------------------------- category rows
\* C26: no identity updates or deletes a category row directly, not even one
\* of its own client: a category row is changed by nothing, and removed only
\* by the cascade of the delete of its client.
C26_CategoriesOnlyCascade ==
    [][/\ last'.op \in {"update_category", "delete_category"} =>
             last'.result = "empty" /\ client_categories' = client_categories
       /\ \A r \in BagToSet(client_categories) :
             CopiesIn(r, client_categories') < CopiesIn(r, client_categories) =>
                /\ last'.op = "delete_client"
                /\ r.client_id \in Ids(clients) \ Ids(clients')
      ]_vars

\* Two clients have their categories, and a delete of a category row has
\* just affected nothing
C26_Witness ==
    /\ Cardinality(clients) = 2
    /\ \A c \in clients : HasDefaultCategories(c.id, client_categories)
    /\ last.op = "delete_category" /\ last.result = "empty"

\* ---------------------------------------------------------------- the storage
\* The first segment of the path of an object
FirstSegment(obj) == obj.name[1]
InAttachments(obj) == obj.bucket_id = AttachmentsBucket

\* C21: an identity uploads, reads or deletes an object of the task-attachments
\* bucket only when the first segment of the object's path is the identity's
\* own id, and every object the upload flow writes lies under the id of the
\* uploader.
C21_ObjectsNamespacedPerIdentity ==
    [][/\ \A u \in Users, obj \in ObjectInputs :
            InAttachments(obj) =>
              /\ last'.op = "upload_object" /\ UploadObject(u, obj)
                    /\ obj \in objects' \ objects
                    => FirstSegment(obj) = u
              /\ last'.op = "read_object" /\ ReadObject(u, obj) /\ last'.data # {}
                    => FirstSegment(obj) = u
              /\ last'.op = "remove_object" /\ RemoveObject(u, obj)
                    /\ obj \in objects \ objects'
                    => FirstSegment(obj) = u
       /\ \A f \in FileNames, fault \in BOOLEAN :
            upload.pc = "upload" /\ UploadFile(f, fault) =>
              \A o \in objects' \ objects :
                  InAttachments(o) /\ FirstSegment(o) = upload.user
      ]_vars

\* The flow stored an object and its uploader read it back, while an object
\* another identity stored under its own id is there too
C21_Witness ==
    /\ upload.pc = "insert"
    /\ last.op = "read_object"
    /\ last.data = {[bucket_id |-> AttachmentsBucket, name |-> upload.path]}
    /\ \E o \in objects : FirstSegment(o) # upload.user

\* ---------------------------------------------------------------- the upload flow
\* The task_attachments row of a stored object: the one holding its public URL
Matched(obj, rows) ==
    \E r \in rows : r.file_url = getPublicUrl(obj.bucket_id, obj.name)
\* The object of the file in hand
FileInHand == [bucket_id |-> AttachmentsBucket, name |-> upload.path]

\* C29: handleFileUpload inserts the task_attachments row of a file only after
\* the upload of that file succeeded and stops at the first upload or insert
\* that fails; when a run has ended, uploading is false and every object the
\* run stored has a matching task_attachments row.
C29_UploadLeavesObjectsMatched ==
    [][/\ \A f \in FileNames, fault \in BOOLEAN :
            UploadFile(f, fault) /\ last'.result # "ok"
               => upload'.pc = "idle" /\ task_attachments' = task_attachments
       /\ \A id \in UploadRowIds, fault \in BOOLEAN :
            InsertUploadRow(id, fault) =>
              /\ FileInHand \in objects
              /\ last'.result # "ok" => upload'.pc = "idle"
       /\ upload.pc # "idle" /\ upload'.pc = "idle" =>
              /\ ~upload'.uploading
              /\ upload.path # << >> => Matched(FileInHand, task_attachments')
      ]_vars

\* A row that differs from another at most in what the update action sets
SameButContent(e, q) == [e EXCEPT !.title = q.title, !.date = q.date] = q

\* C27: the update action of the proxy changes only the content (title,
\* description, date, time, updated_at) of the event it matched: the id, the
\* owner and the google_event_id of that event stay, and so does every other
\* event.
C27_UpdateChangesContentOnly ==
    [][(last'.op = "proxy" /\ last'.request.action = "update") =>
          /\ Cardinality(calendar_events') = Cardinality(calendar_events)
          /\ \A e \in calendar_events :
                IF e.id = last'.request.id
                THEN \E q \in calendar_events' : SameButContent(e, q)
                ELSE e \in calendar_events']_vars

\* An update went through whose body names another owner and a
\* google_event_id, with another event in the table
C27_Witness ==
    /\ last.op = "proxy" /\ last.request.action = "update" /\ last.result = "ok"
    /\ last.request.body.user_id # CallerOf(last.request)
    /\ last.request.body.google_event_id # NullText
    /\ \E e \in calendar_events : e.id # last.request.id

\* ---------------------------------------------------------------- TasksTable
\* C28: once the selection has changed any number of times and every fetch
\* issued has completed, in whatever order, the list displayed is the result
\* of the fetch for the most recent selection, and loading is false.
C28_LatestSelectionDisplayed ==
    (view.changes > 0 /\ view.pending = {}) =>
        /\ ~view.loading
        /\ view.from = view.changes

\* ---------------------------------------------------------------- the calendar page
\* The rows a response of the proxy carries
Returned(response) ==
    IF "events" \in DOMAIN response.body
    THEN {response.body.events[i] : i \in DOMAIN response.body.events}
    ELSE IF "event" \in DOMAIN response.body
    THEN {response.body.event}
    ELSE {}

\* C30: the calendar page and the proxy work on separate stores: no action of
\* the proxy returns, changes or removes a meeting, the statements of the
\* page leave the events alone, and no event of the proxy is among the
\* meetings the page fetches.
C30_MeetingsApartFromEvents ==
    [][/\ last'.op = "proxy" =>
             /\ meetings' = meetings
             /\ Returned(last'.response) \subseteq calendar_events \cup calendar_events'
             /\ Returned(last'.response) \cap meetings = {}
       /\ last'.op \in {"insert_meeting", "update_meeting", "delete_meeting",
                        "fetch_meetings"} =>
             calendar_events' = calendar_events
       /\ last'.op = "fetch_meetings" =>
             /\ last'.data \subseteq meetings
             /\ last'.data \cap calendar_events = {}
      ]_vars

\* The page fetched the meeting of an identity while an event of the same id
\* and owner is in the table of the proxy
C30_Witness ==
    /\ last.op = "fetch_meetings" /\ last.data # {}
    /\ \E m \in last.data, e \in calendar_events :
          m.id = e.id /\ m.user_id = e.user_id

====
